---- MODULE Spec2Model ----
(***************************************************************************)
(* Tome: the scrape-and-cache subsystem.                                   *)
(*                                                                         *)
(* The Cache Store (an SQLite table keyed by url with an expiry in epoch   *)
(* seconds), the Retrieval Engine (HTTP fast path, browser fallback), the  *)
(* Domain Service operations built on both, and the Background Warmer.     *)
(***************************************************************************)
EXTENDS Integers, Sequences, FiniteSets, Bags, TLC

(***************************************************************************)
(* Bounds of the model.                                                    *)
(***************************************************************************)
\* The wall clock advances in ticks; one second is TicksPerSecond ticks, so
\* that Date.now() has a sub-second part which Math.floor(../1000) drops.
TicksPerSecond == 2
\* Last tick the clock of the Cache Store specification may reach.
MaxClock == 6
\* Largest TTL (seconds) handed to setCache by the Cache Store specification.
MaxTtl == 2
\* Calls the routes may make in a behaviour (timers and warmers not counted).
MaxCalls == 1
\* Calls the routes may make in a behaviour of the specifications of two
\* requests served side by side.
MaxRaceCalls == 2
\* Clear-cookies requests a behaviour may serve.
MaxClears == 1
\* Times a browser process may die.
MaxCrashes == 1
\* Times the clock may jump ahead in the Domain Service specifications.
MaxJumps == 1
\* Chapter ids 1..NumChapters exist on the remote site (all of fiction 1).
NumChapters == 2
\* Distinct chapter bodies the remote site may serve (0 is "no body").
MaxBody == 1
\* Most follows of a list that need their next chapter resolved.
MaxFollows == 11
\* Warming runs a behaviour may start (initial run, intervals, triggers).
MaxCycles == 2
\* The /toplist/<slug> routes fetch the first NumToplists of TOPLISTS; the
\* warmer always loops over all four.
NumToplists == 1
\* The toplist-warming specification starts with the toplists after the
\* first NumWarmed of TOPLISTS cached.
NumWarmed == 2
\* Longest stat text of a list item, in characters.
MaxStat == 4

(***************************************************************************)
(* Program constants.                                                      *)
(***************************************************************************)
CACHE_TTL_FOLLOWS == 1200
CACHE_TTL_TOPLIST == 21600
CACHE_TTL_FICTION == 3600
CACHE_TTL_CHAPTER == 2592000
\* getPage: const maxAttempts = 3
maxAttempts == 3

(***************************************************************************)
(* State.                                                                  *)
(***************************************************************************)
VARIABLES
  clock,      \* Date.now(), in ticks
  cache,      \* the rows of table `cache`: [url, content, expires_at]
  imageCache, \* the rows of table `image_cache`: [url, data, content_type,
              \* expires_at]
  lastCall,   \* the last Cache Store call made: [op, url, result, before]
  lastPut,    \* per key, the last setCache not yet overwritten or deleted
  cookies,    \* names of the rows of table `cookies`
  pages,      \* the automation pages that are open: [owner, cx, ctx]
  tasks,      \* the Domain Service calls in flight, by slot
  timers,     \* the pending setTimeout pre-caches: a bag of chapter ids
  calls,      \* requests served and calls begun so far
  jumps,      \* clock jumps taken so far
  jobs,       \* jobsRunning, the two interval timers, the pending initial
              \* runs and the warming runs started so far
  cycles,     \* the warming runs in progress, by slot
  epub,       \* the EPUB library: the rows of epub_files and epub_books, the
              \* files of data/epubs and data/covers, the uploads in flight
  fleet,      \* the browser: the module variables browser, context and
              \* anonContext as references, the browser processes and the
              \* contexts that exist, and where each call stands inside
              \* ensureBrowser, initBrowser, createContext, createAnonContext
  pool        \* parallelLimit inside getFollows: the follows needing
              \* resolution, the array `executing`, the resolutions in flight

storeVars == <<clock, cache>>
ghostVars == <<lastCall, lastPut>>
jobVars == <<jobs, cycles>>
scraperVars == <<cookies, pages, tasks, timers, calls, jumps, jobs, cycles>>
vars == <<clock, cache, imageCache, lastCall, lastPut, cookies, pages, tasks,
          timers, calls, jumps, jobs, cycles, epub, fleet, pool>>

\* Two calls are followed at a time, each in a slot: a call a route handler
\* makes, the setTimeout pre-cache of a live read, a warming run.
RouteSlot == "first"
TimerSlot == "second"
Slots == {RouteSlot, TimerSlot}

\* The callers of the browser functions: the calls in the slots (getPage
\* through ensureBrowser(), validateCookies through createContext()),
\* index.ts (initBrowser()), the clear-cookies route (createContext()) and
\* the SIGINT handler of index.ts (closeBrowser()).
Procs == Slots \cup {"startup", "settings", "shutdown"}

\* A caller outside the browser functions.  Inside them: the await it stands
\* at (pc), the browser or context that await was issued on (br, cx), the
\* cookies createContext read (ck), the initBrowser frames below that wait
\* for their createContext() to return (inits), and the disconnected
\* browser that ensureBrowser found (found).
IdleProc ==
  [pc |-> "idle", br |-> 0, cx |-> 0, ck |-> {}, inits |-> 0, found |-> 0]

\* getFollows has not reached parallelLimit: n follows need resolution,
\* next is the item the for loop starts next, executing the array of that
\* name, inflight the resolutions begun and not finished, started how often
\* each item was started, pending the promises handed to the Promise.all
\* awaited that have not settled, raced whether a promise handed to the
\* Promise.race awaited has settled, peak the most resolutions that were in
\* flight at once.
NoPool ==
  [pc |-> "idle", n |-> 0, next |-> 1, executing |-> {}, inflight |-> {},
   started |-> [k \in 1..MaxFollows |-> 0], pending |-> {}, raced |-> FALSE,
   peak |-> 0, direct |-> 0, unresolved |-> {}]

\* The process has started and index.ts has not called initBrowser() yet
\* (started): browser, context and anonContext are null (0), no browser
\* process runs (running), no context exists (open: [id, of, cookies], the
\* browser it was made on and the cookies loaded into it); launches,
\* contexts, crashes and cleared count the browsers launched, the contexts
\* made, the browsers lost and the clear-cookies requests served.
NoFleet ==
  [started |-> FALSE, browser |-> 0, context |-> 0, anonContext |-> 0,
   running |-> {}, open |-> {}, launches |-> 0, contexts |-> 0, crashes |-> 0,
   cleared |-> 0,
   procs |-> [p \in Procs |-> IdleProc]]

\* The EPUB library with no row and no file, before any upload.
EmptyLibrary ==
  [files |-> {}, books |-> {}, epubs |-> {}, covers |-> {}, uploads |-> {}, begun |-> 0]

\* JavaScript null (the value getCache returns for a missing or expired row).
Null == <<>>

(***************************************************************************)
(* Cache Store (the db module).                                            *)
(***************************************************************************)
\* Math.floor(Date.now() / 1000) at clock value t.
NowSeconds(t) == t \div TicksPerSecond

\* The rows of `rows` stored under `url`.
RowsOf(rows, url) == {r \in rows : r.url = url}

\* A faulty read: a row is still served in the second it expires.
getCacheAtInclusive(rows, t, url) ==
  LET live == {r \in RowsOf(rows, url) : r.expires_at >= NowSeconds(t)}
  IN  IF live = {} THEN Null ELSE (CHOOSE r \in live : TRUE).content

\* SELECT content FROM cache WHERE url = ? AND expires_at > now
getCacheAt(rows, t, url) ==
  LET live == {r \in RowsOf(rows, url) : r.expires_at > NowSeconds(t)}
  IN  IF live = {} THEN Null ELSE (CHOOSE r \in live : TRUE).content

getCache(url) == getCacheAt(cache, clock, url)

\* SELECT 1 FROM cache WHERE url = ? AND expires_at > now
isCachedAt(rows, t, url) ==
  \E r \in RowsOf(rows, url) : r.expires_at > NowSeconds(t)

isCached(url) == isCachedAt(cache, clock, url)

\* A faulty upsert: a plain INSERT that ignores the conflict on url.
setCacheNoConflict(rows, t, url, content, ttlSeconds) ==
  rows \cup {[url |-> url, content |-> content,
              expires_at |-> NowSeconds(t) + ttlSeconds]}

\* INSERT INTO cache ... ON CONFLICT(url) DO UPDATE SET content, expires_at
setCacheRows(rows, t, url, content, ttlSeconds) ==
  LET expiresAt == NowSeconds(t) + ttlSeconds
  IN  IF RowsOf(rows, url) = {}
      THEN rows \cup {[url |-> url, content |-> content, expires_at |-> expiresAt]}
      ELSE {IF r.url = url
            THEN [r EXCEPT !.content = content, !.expires_at = expiresAt]
            ELSE r : r \in rows}

\* DELETE FROM cache
clearCacheRows(rows) == {}

\* A faulty purge: it takes the rows that expire within the next second too.
clearExpiredEarly(rows, t) == {r \in rows : ~(r.expires_at <= NowSeconds(t) + 1)}

\* DELETE FROM cache WHERE expires_at <= now
clearExpiredCacheRows(rows, t) == {r \in rows : ~(r.expires_at <= NowSeconds(t))}

\* clearExpiredCache(): both DELETE statements, with one value of now.  The
\* result is <<rows of cache, rows of image_cache>>.
clearExpiredCache(rows, images, t) ==
  <<clearExpiredCacheRows(rows, t), clearExpiredCacheRows(images, t)>>

\* SELECT data, content_type FROM image_cache WHERE url = ? AND expires_at > now
getImageCacheAt(images, t, url) ==
  LET live == {r \in RowsOf(images, url) : r.expires_at > NowSeconds(t)}
  IN  IF live = {} THEN Null
      ELSE LET entry == CHOOSE r \in live : TRUE
           IN  [data |-> entry.data, contentType |-> entry.content_type]

getImageCache(url) == getImageCacheAt(imageCache, clock, url)

\* INSERT INTO image_cache ... ON CONFLICT(url) DO UPDATE SET data,
\* content_type, expires_at
setImageCacheRows(images, t, url, data, contentType, ttlSeconds) ==
  LET expiresAt == NowSeconds(t) + ttlSeconds
  IN  {r \in images : r.url # url}
      \cup {[url |-> url, data |-> data, content_type |-> contentType,
             expires_at |-> expiresAt]}

\* DELETE FROM image_cache
clearImageCacheRows(images) == {}

\* Strings whose characters matter (the keys and types of the maintenance
\* operations) are sequences of one-character strings.
UpperCase == <<"A", "B", "C", "D", "E", "F", "G", "H", "I", "J", "K", "L", "M",
               "N", "O", "P", "Q", "R", "S", "T", "U", "V", "W", "X", "Y", "Z">>
LowerCase == <<"a", "b", "c", "d", "e", "f", "g", "h", "i", "j", "k", "l", "m",
               "n", "o", "p", "q", "r", "s", "t", "u", "v", "w", "x", "y", "z">>

\* The ASCII case folding SQLite applies to both sides of LIKE.
toLower(ch) ==
  IF \E n \in 1..Len(UpperCase) : UpperCase[n] = ch
  THEN LowerCase[CHOOSE n \in 1..Len(UpperCase) : UpperCase[n] = ch]
  ELSE ch

\* SQLite's `s LIKE pattern` (no ESCAPE): % matches any run of characters,
\* _ any one character, every other character itself without regard to
\* ASCII case.
RECURSIVE Like(_, _)
Like(pattern, s) ==
  IF pattern = <<>> THEN s = <<>>
  ELSE IF Head(pattern) = "%"
       THEN \E k \in 0..Len(s) : Like(Tail(pattern), SubSeq(s, k + 1, Len(s)))
  ELSE IF s = <<>> THEN FALSE
  ELSE IF Head(pattern) = "_" THEN Like(Tail(pattern), Tail(s))
  ELSE toLower(Head(pattern)) = toLower(Head(s)) /\ Like(Tail(pattern), Tail(s))

\* clearCacheByType(type): DELETE FROM cache WHERE url LIKE `${type}:%`,
\* returning result.changes.  The result is [rows, changes].
clearCacheByType(rows, type) ==
  LET gone == {r \in rows : Like(type \o <<":", "%">>, r.url)}
  IN  [rows |-> rows \ gone, changes |-> Cardinality(gone)]

\* entry.url.match(/^([a-z]+):/): the type of a key, 'other' when the key
\* does not start with lower-case letters and a colon.
typeOf(url) ==
  LET isLower(ch) == \E n \in 1..Len(LowerCase) : LowerCase[n] = ch
      stops == {n \in 1..Len(url) : ~isLower(url[n])}
      stop == IF stops = {} THEN 0 ELSE CHOOSE n \in stops : \A m \in stops : n <= m
  IN  IF stop > 1 /\ url[stop] = ":" THEN SubSeq(url, 1, stop - 1)
      ELSE <<"o", "t", "h", "e", "r">>

\* The sum of length(content) (length(data)) over a set of rows.
RECURSIVE sizeOf(_)
sizeOf(rows) ==
  IF rows = {} THEN 0
  ELSE LET r == CHOOSE x \in rows : TRUE
       IN  (IF "content" \in DOMAIN r THEN Len(r.content) ELSE Len(r.data))
           + sizeOf(rows \ {r})

\* getCacheStats().  byType is given as a set: the order of the list (by
\* size, largest first) does not matter here.
getCacheStats(rows, images, t) ==
  [totalEntries |-> Cardinality(rows),
   totalSize |-> sizeOf(rows),
   byType |-> {[type |-> ty,
                count |-> Cardinality({r \in rows : typeOf(r.url) = ty}),
                size |-> sizeOf({r \in rows : typeOf(r.url) = ty})] :
                  ty \in {typeOf(r.url) : r \in rows}},
   expiredCount |-> Cardinality({r \in rows : r.expires_at <= NowSeconds(t)}),
   imageCount |-> Cardinality(images),
   imageSize |-> sizeOf(images)]

\* String(n) for a number: its decimal digits.
DigitChars == <<"0", "1", "2", "3", "4", "5", "6", "7", "8", "9">>
RECURSIVE Decimal(_)
Decimal(n) ==
  IF n < 10 THEN <<DigitChars[n + 1]>>
  ELSE Decimal(n \div 10) \o <<DigitChars[(n % 10) + 1]>>

\* The cache keys: `chapter:${id}`, `fiction:${id}`, `toplist:${slug}` (the
\* slug kept as one token after the colon) and "follows".
ChapterKey(id) == <<"c", "h", "a", "p", "t", "e", "r", ":">> \o Decimal(id)
FictionKey(id) == <<"f", "i", "c", "t", "i", "o", "n", ":">> \o Decimal(id)
ToplistKey(slug) == <<"t", "o", "p", "l", "i", "s", "t", ":", slug>>
FollowsKey == <<"f", "o", "l", "l", "o", "w", "s">>

\* The keys the Cache Store specification reads and writes, and its records
\* of the calls made.
StoreKeys == {ChapterKey(1), FictionKey(1)}
NoPut == [live |-> FALSE, at |-> 0, ttl |-> 0, content |-> Null]
NoCall == [op |-> "none", url |-> <<>>, result |-> Null, before |-> {}]

(***************************************************************************)
(* Values: what the remote site serves and what the extractors make of it. *)
(***************************************************************************)
Chapters == 1..NumChapters
\* Every chapter of the modelled site belongs to fiction 1.
Fictions == {1}
OwnerOf(chapterId) == 1
AllChapters == [i \in 1..NumChapters |-> i]

\* TOPLISTS, by slug.
TOPLISTS == <<"rising-stars", "best-rated", "weekly-popular", "active-popular">>
\* The toplists the routes fetch: the first NumToplists of them.
Toplists == SubSeq(TOPLISTS, 1, NumToplists)

\* A fetched document, as far as the extractors look at it:
\*   list        the .fiction-list-item / history rows that parse
\*   login       the page is the login form
\*   title       a .fic-title h1 exists
\*   chapters    the chapter rows of the markup that parse, as chapter ids
\*   progress    the positions of the rows with the Reading Progress icon
\*   jsChapters  window.chapters of the rendered page, as chapter ids
\*   continueId  the chapter of the Continue Reading button, 0 if none
\*   body        the .chapter-content element (0 if none, else its version)
\*   linkFic     the fiction id of the fiction link in the page, 0 if none
\*   urlFic      the fiction id in the final URL of the page, 0 if none
\*   nextId      the chapter id of the Next button, 0 if none
\*   marker      the Cloudflare challenge marker it contains, "none" if none
\*   styles      the rules of its <style> blocks: the class names of the
\*               selector (`.a, .b` has two) and whether the declarations
\*               hold `display: none`
\*   nodes       the children of the .chapter-content element: their class
\*               names, their own text and their child elements
EmptyPage ==
  [list |-> <<>>, login |-> FALSE, title |-> FALSE, chapters |-> <<>>,
   progress |-> {}, jsChapters |-> <<>>,
   continueId |-> 0, body |-> 0, linkFic |-> 0, urlFic |-> 0, nextId |-> 0,
   marker |-> "none", styles |-> {}, nodes |-> <<>>]

LoginPage == [EmptyPage EXCEPT !.login = TRUE]

\* A row of /my/follows: the fiction, its last read chapter, and the Read
\* button: a direct /chapter/<id> link to the first chapter of a fiction
\* never read, or a /chapter/next/<fiction> redirect after the last read one.
FollowRows ==
  {[id |-> f, lastReadChapterId |-> b[1], nextChapterId |-> b[2], nextChapterUrl |-> b[3]] :
     f \in Fictions, b \in {<<0, 1, FALSE>>, <<1, 0, TRUE>>}}

FollowsPages ==
  {EmptyPage} \cup {[EmptyPage EXCEPT !.list = <<r>>] : r \in FollowRows}

ListPages == {EmptyPage, [EmptyPage EXCEPT !.list = <<1>>]}

\* A toplist page: no item that parses, or one item, of fiction 1, whose stat
\* div holds the followers icon and the text "1".
ToplistItem == [id |-> 1, icon |-> "fa-users", text |-> <<"1">>]

ToplistPages == {EmptyPage, [EmptyPage EXCEPT !.list = <<ToplistItem>>]}

\* A toplist whose pages hold one item with one stat div: its icon class and
\* its text, of a digit, the thousands separator and a letter.
StatToplist == TOPLISTS[4]

StatPages ==
  LET texts == UNION {[1..n -> {"1", ",", "x"}] : n \in 0..MaxStat}
  IN  {[EmptyPage EXCEPT !.list = <<[id |-> 1, icon |-> ic, text |-> tx]>>] :
         ic \in {"fa-users", "fa-book"}, tx \in texts}

FictionPages ==
  {EmptyPage} \cup
  {[EmptyPage EXCEPT !.title = TRUE, !.chapters = AllChapters, !.continueId = c] :
     c \in {0, NumChapters}}

\* The page of fiction MarkedFiction, which the reader has opened before: a
\* longer chapter table, any of its rows carrying the Reading Progress icon,
\* a Continue Reading button to any chapter (also one not in the table) or
\* none, and window.chapters filled or not.
MarkedFiction == 3
MarkedChapters == [j \in 1..(NumChapters + 1) |-> j]

MarkedFictionPages ==
  {[EmptyPage EXCEPT !.title = TRUE, !.chapters = MarkedChapters, !.progress = marked,
                     !.continueId = c, !.jsChapters = js] :
     marked \in SUBSET (1..Len(MarkedChapters)),
     c \in 0..(Len(MarkedChapters) + 1),
     js \in {<<>>, MarkedChapters}}

ChapterPages(id) ==
  {EmptyPage} \cup
  {[EmptyPage EXCEPT !.body = b, !.linkFic = lf[1], !.urlFic = lf[2], !.nextId = n] :
     b \in 1..MaxBody,
     lf \in {<<OwnerOf(id), OwnerOf(id)>>, <<0, OwnerOf(id)>>},
     n \in {0} \cup (Chapters \ {id})}

\* A chapter whose pages carry style rules and a body of two paragraphs, the
\* first with a span in it: the first paragraph has no class or one a rule
\* names, the span no class or one a rule names, the second paragraph no
\* class, the class of an author note or a generated class name.
DecoyChapter == NumChapters + 2

DecoyPages ==
  LET rules == {[selector |-> <<"xq7z">>, hides |-> TRUE],
                [selector |-> <<"xq7z", "zz9">>, hides |-> TRUE],
                [selector |-> <<"zz9">>, hides |-> FALSE]}
  IN  {[EmptyPage EXCEPT
          !.body = 1, !.linkFic = 1, !.styles = st,
          !.nodes = <<[classes |-> a, text |-> "first",
                       kids |-> <<[classes |-> b, text |-> "inner", kids |-> <<>>]>>],
                      [classes |-> c, text |-> "second", kids |-> <<>>]>>] :
         st \in (SUBSET rules) \ {{}},
         a \in {{}, {"zz9"}}, b \in {{}, {"xq7z"}, {"zz9"}},
         c \in {{}, {"author-note"}, {"qwertyuiopasdfghjklzx"}}}

\* The documents the remote site may answer a call's request with.
PagesFor(op, arg) ==
  CASE op = "getFollows" -> FollowsPages
    [] op = "validateCookies" -> {LoginPage, EmptyPage}
    [] op = "getFiction" -> IF arg = MarkedFiction THEN MarkedFictionPages
                            ELSE FictionPages
    [] op = "getChapter" -> IF arg = DecoyChapter THEN DecoyPages ELSE ChapterPages(arg)
    [] op = "getToplist" -> IF arg = StatToplist THEN StatPages ELSE ToplistPages
    [] OTHER -> ListPages

\* html.includes("challenge-running") || html.includes("cf-browser-verification")
\* || html.includes("cf-turnstile")
challengeDetected(html) ==
  html.marker \in {"challenge-running", "cf-browser-verification", "cf-turnstile"}

\* The challenge pages Cloudflare may serve instead of a document.
ChallengePages ==
  {[EmptyPage EXCEPT !.marker = m] :
     m \in {"challenge-running", "cf-browser-verification", "cf-turnstile"}}

\* What fetch() may settle with for a call's GET request: a response (its
\* status ok or not, its body) or a rejection.
Responses(op, arg) ==
  {[rejected |-> FALSE, ok |-> TRUE, html |-> c] :
     c \in PagesFor(op, arg) \cup ChallengePages}
  \cup {[rejected |-> FALSE, ok |-> FALSE, html |-> EmptyPage],
        [rejected |-> TRUE, ok |-> FALSE, html |-> EmptyPage]}

\* A faulty fast path: a body that holds nothing of the document counts as
\* blocked too.
tryHttpFetchRejectsEmpty(response) ==
  IF response.rejected THEN Null
  ELSE IF ~response.ok THEN Null
  ELSE IF challengeDetected(response.html) \/ response.html = EmptyPage THEN Null
  ELSE response.html

\* tryHttpFetch: null when fetch rejects, when the status is not ok and when
\* the body holds a challenge marker; else the body.
tryHttpFetch(response) ==
  IF response.rejected THEN Null
  ELSE IF ~response.ok THEN Null
  ELSE IF challengeDetected(response.html) THEN Null
  ELSE response.html

\* The headers of the HEAD request of resolveRedirectUrl.
resolveRedirectHeadersWithCookie == {"User-Agent", "Cookie"}
resolveRedirectHeaders == {"User-Agent"}

\* A number that is undefined, the number NaN, and null where JSON.parse
\* gives it for a number.
undefined == -1
NaN == -2
null == -3

\* JSON.stringify of a number: NaN is written as null.
JSONnumber(x) == IF x = NaN THEN null ELSE x

\* JSON.stringify / JSON.parse of a result that holds no number parsed from
\* a stat text (a follows list, a fiction, a chapter).
JSONstringify(v) == <<"json", v>>
JSONparse(s) == s[2]

\* JSON.stringify of the Fiction[] parseFictionList gives: the numbers of
\* `stats` go through JSONnumber (an undefined one is left out of the text
\* and reads as undefined again).
JSONstringifyFictions(list) ==
  <<"json", [j \in 1..Len(list) |->
               [list[j] EXCEPT !.followers = JSONnumber(@), !.pages = JSONnumber(@)]]>>

(***************************************************************************)
(* Credential store.                                                       *)
(***************************************************************************)
\* hasSessionCookies(): the .AspNetCore.Identity.Application row exists.
hasSessionCookiesOf(ck) == "identity" \in ck
hasSessionCookies == hasSessionCookiesOf(cookies)


(***************************************************************************)
(* Browser management: ensureBrowser, initBrowser, createContext and       *)
(* createAnonContext, one step per await.  Each operator takes the browser *)
(* state f, the caller p and the cookies stored at that moment, and gives  *)
(* the browser state at the caller's next await; a caller whose function   *)
(* has returned or thrown stands at "returned" or "thrown".                *)
(***************************************************************************)
\* Caller p awaits a promise: pc names the await, br and cx the browser or
\* context it was issued on.
Await(f, p, pc, br, cx) ==
  [f EXCEPT !.procs[p].pc = pc, !.procs[p].br = br, !.procs[p].cx = cx]

\* An await of caller p rejects, or a call on null throws: none of the four
\* functions catches, so the error reaches the caller of the outermost one.
Thrown(f, p) ==
  [f EXCEPT !.procs[p] = [IdleProc EXCEPT !.pc = "thrown", !.found = f.procs[p].found]]

RECURSIVE Returned(_, _, _), initBrowserCalled(_, _, _), createAnonContextCalled(_, _, _)

\* createAnonContext() up to its first await: initBrowser() without a
\* browser, else `await anonContext.close()` when a context is set, else
\* `anonContext = await browser.newContext(...)`.
createAnonContextCalled(f, p, ck) ==
  IF f.browser = 0 THEN initBrowserCalled(f, p, ck)
  ELSE IF f.anonContext # 0 THEN Await(f, p, "anonClose", f.browser, f.anonContext)
  ELSE Await(f, p, "anonNew", f.browser, 0)

\* initBrowser() up to its first await: return when a browser is set or no
\* session cookie is stored, else `browser = await firefox.launch(...)`.
initBrowserCalled(f, p, ck) ==
  IF f.browser # 0 THEN Returned(f, p, ck)
  ELSE IF ~hasSessionCookiesOf(ck) THEN Returned(f, p, ck)
  ELSE Await(f, p, "launch", 0, 0)

\* The function caller p stands in returns.  createContext() returns to an
\* initBrowser that awaits it (inits counts those), which goes on to
\* `await createAnonContext()`; every other return is passed on upwards
\* (`await initBrowser(); return;`, the end of initBrowser, ensureBrowser).
Returned(f, p, ck) ==
  IF f.procs[p].inits > 0
  THEN createAnonContextCalled([f EXCEPT !.procs[p].inits = @ - 1], p, ck)
  ELSE Await(f, p, "returned", 0, 0)

\* createContext() up to its first await: initBrowser() without a browser,
\* else `await context.close()` when a context is set, else
\* getCookiesForPlaywright() and `context = await browser.newContext(...)`.
createContextCalled(f, p, ck) ==
  IF f.browser = 0 THEN initBrowserCalled(f, p, ck)
  ELSE IF f.context # 0 THEN Await(f, p, "contextClose", f.browser, f.context)
  ELSE [Await(f, p, "contextNew", f.browser, 0) EXCEPT !.procs[p].ck = ck]

\* ensureBrowser() up to its first await: nothing on a connected browser;
\* else browser = context = anonContext = null and initBrowser().
ensureBrowserCalled(f, p, ck) ==
  IF f.browser = 0 \/ f.browser \notin f.running
  THEN initBrowserCalled([f EXCEPT !.browser = 0, !.context = 0, !.anonContext = 0,
                                   !.procs[p].found = f.browser], p, ck)
  ELSE Returned(f, p, ck)

\* `browser = await firefox.launch(...)` has settled for caller p: a new
\* process runs and `browser` refers to it; initBrowser goes on to
\* `await createContext()`.
launchSettled(f, p, ck) ==
  LET b == f.launches + 1
  IN  createContextCalled([f EXCEPT !.launches = b, !.running = @ \cup {b},
                                    !.browser = b, !.procs[p].inits = @ + 1], p, ck)

\* The contexts of f.open with the id c, and f without them.
ContextsAt(f, c) == {x \in f.open : x.id = c}
closeContext(f, c) == [f EXCEPT !.open = @ \ ContextsAt(f, c)]

\* `await context.close()` (anonContext.close()) has settled for caller p:
\* the context is gone; createContext reads the stored cookies; then
\* `browser.newContext(...)`, which throws on a null browser.
closeSettled(f, p, ck) ==
  LET q == f.procs[p]
      g == closeContext(f, q.cx)
  IN  IF g.browser = 0 THEN Thrown(g, p)
      ELSE IF q.pc = "contextClose"
      THEN [Await(g, p, "contextNew", g.browser, 0) EXCEPT !.procs[p].ck = ck]
      ELSE Await(g, p, "anonNew", g.browser, 0)

\* `context = await browser.newContext(...)` (anonContext = ...) has settled
\* for caller p: it rejects on a browser that is gone; else the new context
\* is assigned to the module variable, whatever that held, and
\* `await context.addInitScript(...)` is called on it.
newContextSettled(f, p) ==
  LET q == f.procs[p]
      c == f.contexts + 1
      made == [f EXCEPT !.contexts = c,
                        !.open = @ \cup {[id |-> c, of |-> q.br, cookies |-> {}]}]
  IN  IF q.br \notin f.running THEN Thrown(f, p)
      ELSE IF q.pc = "contextNew"
      THEN Await([made EXCEPT !.context = c], p, "contextInit", q.br, c)
      ELSE Await([made EXCEPT !.anonContext = c], p, "anonInit", q.br, c)

\* `await context.addInitScript(...)` has settled for caller p (rejected on
\* a context that is gone).  createAnonContext returns.  createContext
\* returns when it read no cookie, else `await context.addCookies(cookies)`
\* on what `context` refers to now (a throw when that is null).
initScriptSettled(f, p, ck) ==
  LET q == f.procs[p]
  IN  IF ContextsAt(f, q.cx) = {} THEN Thrown(f, p)
      ELSE IF q.pc = "anonInit" THEN Returned(f, p, ck)
      ELSE IF q.ck = {} THEN Returned(f, p, ck)
      ELSE IF f.context = 0 THEN Thrown(f, p)
      ELSE Await(f, p, "contextCookies", q.br, f.context)

\* `await context.addCookies(cookies)` has settled for caller p (rejected on
\* a context that is gone): the context holds the cookies createContext
\* read, and createContext returns.
addCookiesSettled(f, p, ck) ==
  LET q == f.procs[p]
      loaded == {[x EXCEPT !.cookies = IF x.id = q.cx THEN @ \cup q.ck ELSE @] : x \in f.open}
  IN  IF ContextsAt(f, q.cx) = {} THEN Thrown(f, p)
      ELSE Returned([f EXCEPT !.open = loaded], p, ck)

\* The browser process b dies: it is no longer connected, its contexts and
\* their pages are gone.
disconnected(f, b) ==
  [f EXCEPT !.crashes = @ + 1, !.running = @ \ {b},
            !.open = {x \in @ : x.of # b}]

\* closeBrowser() from its test of anonContext (stage 1), of context (2) or
\* of browser (3) up to its next await: `await anonContext.close()`,
\* `await context.close()`, `await browser.close()`, each on what the
\* variable refers to; with nothing left to close it returns to the SIGINT
\* handler, which calls process.exit(0).
closeBrowserFrom(f, p, stage) ==
  IF stage <= 1 /\ f.anonContext # 0
  THEN Await(f, p, "closingAnon", f.browser, f.anonContext)
  ELSE IF stage <= 2 /\ f.context # 0
  THEN Await(f, p, "closingContext", f.browser, f.context)
  ELSE IF f.browser # 0 THEN Await(f, p, "closingBrowser", f.browser, 0)
  ELSE Await(f, p, "exited", 0, 0)

\* An await of closeBrowser() has settled: the context closed is gone and
\* `anonContext = null` (`context = null`), or the browser process closed is
\* gone with its contexts and `browser = null`; closeBrowser goes on.
closeBrowserSettled(f, p) ==
  LET q == f.procs[p]
  IN  CASE q.pc = "closingAnon" ->
             closeBrowserFrom([closeContext(f, q.cx) EXCEPT !.anonContext = 0], p, 2)
        [] q.pc = "closingContext" ->
             closeBrowserFrom([closeContext(f, q.cx) EXCEPT !.context = 0], p, 3)
        [] OTHER ->
             Await([f EXCEPT !.running = @ \ {q.br}, !.open = {x \in @ : x.of # q.br},
                             !.browser = 0], p, "exited", 0, 0)

\* The cookies the context with id c holds ({} when it is gone).
CookiesOf(f, c) == UNION {x.cookies : x \in ContextsAt(f, c)}

\* A browser that initBrowser() has set up, with the cookies ck loaded into
\* the authenticated context.
BrowserUp(ck) ==
  [NoFleet EXCEPT !.started = TRUE, !.browser = 1, !.running = {1}, !.launches = 1,
                  !.context = 1, !.anonContext = 2, !.contexts = 2,
                  !.open = {[id |-> 1, of |-> 1, cookies |-> ck],
                            [id |-> 2, of |-> 1, cookies |-> {}]}]

(***************************************************************************)
(* Domain Service calls in flight.                                         *)
(***************************************************************************)
\* A call: its arguments, where it stands (pc), the automation page it
\* holds, and a record of what it did (for the properties):
\*   cookieSent  its fast-path request carried the Cookie header
\*   httpCalls   fast-path requests issued
\*   ctxUsed     the context its fallback page was opened in ("none" if none)
\*   wrote, deleted   the cache keys it wrote / deleted
\*   hit         it returned a cached value
\*   cachedAtStart   a valid entry stood under its key when it was called
\*   content     the document getPage returned, while the call works on it
\*   headCookie  a HEAD request of its redirect resolution carried Cookie
\*   heads       its redirect resolution has HEAD requests in flight
\*   type        setBookmark's bookmark type ("none" for the other calls)
\*   cx          the context its page was asked of (`ctx` of getPage), 0: none
\*   found       the disconnected browser its ensureBrowser() met, 0: none
\*   challenged  its fast-path response held "challenge-running"
\*   navigated   page.goto was called on its page
IdleTask ==
  [op |-> "none", arg |-> 0, type |-> "none", hasTtl |-> FALSE, ttl |-> 0,
   useAnon |-> FALSE,
   caller |-> "none", pc |-> "idle", attempts |-> 0, page |-> FALSE,
   content |-> EmptyPage, cookieSent |-> FALSE, httpCalls |-> 0,
   headCookie |-> FALSE, heads |-> FALSE, cx |-> 0, found |-> 0,
   challenged |-> FALSE, navigated |-> FALSE,
   ctxUsed |-> "none", ctxCookies |-> {}, wrote |-> {}, deleted |-> {}, hit |-> FALSE,
   cachedAtStart |-> FALSE, result |-> Null, error |-> "none"]

\* The cache key of a call, <<>> for the operations that never cache.
CacheKeyOf(op, arg) ==
  CASE op = "getFollows" -> FollowsKey
    [] op = "getToplist" -> ToplistKey(arg)
    [] op = "getFiction" -> FictionKey(arg)
    [] op = "getChapter" -> ChapterKey(arg)
    [] OTHER -> <<>>

\* Whether the call reads the cache before fetching: getChapter only when a
\* TTL was passed (isPreCaching).
ReadsCache(t) ==
  \/ t.op \in {"getFollows", "getToplist", "getFiction"}
  \/ t.op = "getChapter" /\ t.hasTtl

\* A faulty getPage entry: the Cookie header goes out on anonymous requests too.
getPageEnterAlwaysCookies(t, ck) ==
  IF ~t.useAnon /\ ~hasSessionCookiesOf(ck)
  THEN [t EXCEPT !.pc = "failed", !.error = "NotConfigured"]
  ELSE [t EXCEPT !.pc = "http", !.httpCalls = @ + 1, !.cookieSent = (ck # {})]

\* getPage up to its first await: reject an authenticated request when no
\* session cookie is stored, else issue tryHttpFetch(url, !useAnon), which
\* sets the Cookie header when includeCookies and the header is not empty.
getPageEnter(t, ck) ==
  IF ~t.useAnon /\ ~hasSessionCookiesOf(ck)
  THEN [t EXCEPT !.pc = "failed", !.error = "NotConfigured"]
  ELSE [t EXCEPT !.pc = "http", !.httpCalls = @ + 1,
                 !.cookieSent = (~t.useAnon /\ ck # {})]

\* setBookmark up to its await: the POST request goes out with the Cookie
\* header getCookiesForFetch() builds from the stored cookies (empty when
\* none is stored); no check of the session cookie comes before it.
setBookmarkEnter(t, ck) ==
  [t EXCEPT !.pc = "bookmark", !.httpCalls = @ + 1, !.cookieSent = (ck # {})]

\* A faulty start: the cached entry is ignored.
beginCallNoCache(t, rows, now, ck) ==
  LET cached == getCacheAt(rows, now, CacheKeyOf(t.op, t.arg))
      s == [t EXCEPT !.cachedAtStart = (CacheKeyOf(t.op, t.arg) # <<>> /\ cached # Null)]
  IN  IF t.op = "validateCookies" THEN [s EXCEPT !.pc = "ctx"]
      ELSE IF t.op = "setBookmark" THEN setBookmarkEnter(s, ck)
      ELSE getPageEnter(s, ck)

\* A faulty start: a live chapter read is served from the cache as well.
beginCallLiveFromCache(t, rows, now, ck) ==
  LET cached == getCacheAt(rows, now, CacheKeyOf(t.op, t.arg))
      s == [t EXCEPT !.cachedAtStart = (CacheKeyOf(t.op, t.arg) # <<>> /\ cached # Null)]
  IN  IF s.cachedAtStart
      THEN [s EXCEPT !.pc = "done", !.hit = TRUE, !.result = JSONparse(cached)]
      ELSE IF t.op = "validateCookies" THEN [s EXCEPT !.pc = "ctx"]
      ELSE IF t.op = "setBookmark" THEN setBookmarkEnter(s, ck)
      ELSE getPageEnter(s, ck)

\* A call up to its first await: return the cached value when the call reads
\* the cache and a valid entry exists, else enter getPage.  validateCookies
\* awaits createContext() first.
beginCall(t, rows, now, ck) ==
  LET cached == getCacheAt(rows, now, CacheKeyOf(t.op, t.arg))
      s == [t EXCEPT !.cachedAtStart = (CacheKeyOf(t.op, t.arg) # <<>> /\ cached # Null)]
  IN  IF ReadsCache(t) /\ cached # Null
      THEN [s EXCEPT !.pc = "done", !.hit = TRUE, !.result = JSONparse(cached)]
      ELSE IF t.op = "validateCookies" THEN [s EXCEPT !.pc = "ctx"]
      ELSE IF t.op = "setBookmark" THEN setBookmarkEnter(s, ck)
      ELSE getPageEnter(s, ck)

NewTask(op, arg, hasTtl, ttl, useAnon, caller) ==
  [IdleTask EXCEPT !.op = op, !.arg = arg, !.hasTtl = hasTtl, !.ttl = ttl,
                   !.useAnon = useAnon, !.caller = caller]

\* The calls of the Domain Service: getFollows(ttl), getToplist(t, ttl),
\* getFiction(id, ttl, useAnon = false), which store under the ttl they are
\* given (every caller leaves it to the default of the signature:
\* CACHE_TTL.FOLLOWS, TOPLIST, FICTION); getChapter(id, ttl?) where
\* useAnon = (ttl !== undefined); the uncached getHistory, searchFictions.
getFollows(ttl, caller) == NewTask("getFollows", 0, TRUE, ttl, FALSE, caller)
getHistory(caller) == NewTask("getHistory", 0, FALSE, 0, FALSE, caller)
getToplist(slug, ttl, caller) == NewTask("getToplist", slug, TRUE, ttl, FALSE, caller)
getFiction(id, ttl, caller) == NewTask("getFiction", id, TRUE, ttl, FALSE, caller)
getChapterLive(id, caller) == NewTask("getChapter", id, FALSE, 0, FALSE, caller)
getChapterPre(id, ttl, caller) == NewTask("getChapter", id, TRUE, ttl, TRUE, caller)
searchFictions(caller) == NewTask("searchFictions", 0, FALSE, 0, FALSE, caller)
validateCookies(caller) == NewTask("validateCookies", 0, FALSE, 0, FALSE, caller)
\* setBookmark(fictionId, type, mark, csrfToken); mark and the token only go
\* into the body of the request.
setBookmark(fictionId, type, caller) ==
  [NewTask("setBookmark", fictionId, FALSE, 0, FALSE, caller) EXCEPT !.type = type]

\* The calls of the page routes: /follows, /history, /search,
\* /toplist/<slug>, /fiction/<id>, /chapter/<id> (a live read: no ttl is
\* passed) and the bookmark POST.
PageCalls ==
  {getFollows(CACHE_TTL_FOLLOWS, "route"), getHistory("route"), searchFictions("route")}
  \cup {getToplist(Toplists[j], CACHE_TTL_TOPLIST, "route") : j \in 1..NumToplists}
  \cup {getFiction(f, CACHE_TTL_FICTION, "route") : f \in Fictions}
  \cup {getChapterLive(c, "route") : c \in Chapters}
  \cup {setBookmark(f, type, "route") : f \in Fictions, type \in {"follow", "favorite", "ril"}}

\* The calls of the JSON routes the reader script requests while a chapter is
\* open: GET /api/chapter/<id>, which is getChapter(id, 30 * 24 * 60 * 60), a
\* pre-caching read, and POST /api/chapter/<id>, which is getChapter(id), a
\* live read that marks the chapter as read.
ApiCalls ==
  {getChapterPre(c, CACHE_TTL_CHAPTER, "api") : c \in Chapters}
  \cup {getChapterLive(c, "api") : c \in Chapters}

\* The calls the routes of the server make.
RouteCalls == PageCalls \cup ApiCalls

(***************************************************************************)
(* Extraction and write-through: the synchronous tail of each operation.   *)
(***************************************************************************)
\* DELETE FROM cache WHERE url = ?  (deleteCache of services/cache)
deleteCacheRows(rows, url) == {r \in rows : r.url # url}

\* getChapter's fictionInfo.fictionId: on a browser page the id in the final
\* URL, else (and on the HTTP path always) the id of the fiction link, else 0.
fictionIdOf(c, viaBrowser) ==
  IF viaBrowser /\ c.urlFic # 0 THEN c.urlFic ELSE c.linkFic

\* hiddenClasses: each match of
\* /\.([a-zA-Z0-9_-]+)\s*\{[^}]*display\s*:\s*none[^}]*\}/ in a <style> block
\* gives the class name that stands right before the `{`.
hiddenClasses(styles) == {r.selector[Len(r.selector)] : r \in {q \in styles : q.hides}}

\* cloned.querySelectorAll(`.${className}`).forEach(el => el.remove()) for
\* each of `classes`: the elements below the content element that bear one
\* of them go, with what they contain.
removeAll(nodes, classes) ==
  LET stays(n) == n.classes \cap classes = {}
      top == SelectSeq(nodes, stays)
  IN  [j \in 1..Len(top) |-> [top[j] EXCEPT !.kids = SelectSeq(@, stays)]]

\* cleanContent: "" without a content element; else the clone without the
\* elements of the hidden classes, without .author-note, .ad, .portlet,
\* .hidden, .ads (and script, iframe, noscript, which the documents here do
\* not hold), with the class names of 20 characters and more dropped.
cleanContent(c) ==
  LET unwanted == {"author-note", "ad", "portlet", "hidden", "ads"}
      kept == removeAll(removeAll(c.nodes, hiddenClasses(c.styles)), unwanted)
      cleanClasses(n) == [n EXCEPT !.classes = {k \in @ : Len(k) < 20}]
  IN  IF c.body = 0 THEN <<>>
      ELSE [j \in 1..Len(kept) |->
              [cleanClasses(kept[j]) EXCEPT
                 !.kids = [m \in 1..Len(@) |-> cleanClasses(@[m])]]]

\* The ChapterContent getChapter builds: `content` says which content element
\* it was taken from, `cleanContent` what is left of that element.
chapterResult(id, c, viaBrowser) ==
  [id |-> id, fictionId |-> fictionIdOf(c, viaBrowser), content |-> c.body,
   cleanContent |-> cleanContent(c), nextChapterId |-> c.nextId]

\* The smallest member of a set of positions, 0 when it is empty
\* (findIndex + 1), and the largest, 0 when it is empty.
FirstOf(at) == IF at = {} THEN 0 ELSE CHOOSE j \in at : \A m \in at : j <= m
LastOf(at) == IF at = {} THEN 0 ELSE CHOOSE j \in at : \A m \in at : j >= m

\* getFiction's chapter ids: window.chapters when the call holds a page and it
\* is not empty, else the rows of the markup.
chapterIds(c, viaBrowser) ==
  IF viaBrowser /\ Len(c.jsChapters) > 0 THEN c.jsChapters ELSE c.chapters

\* getFiction's lastReadChapterIdx, counted from 1 (0: none): the last row
\* with the Reading Progress icon, looked for only while parsing the rows.
lastReadChapterIdx(c, viaBrowser) ==
  IF viaBrowser /\ Len(c.jsChapters) > 0 THEN 0 ELSE LastOf(c.progress)

\* getFiction's marking: chapters[i].isRead = true up to and including
\* lastReadChapterIdx when there is one, else for the chapters before the
\* continue chapter when it is in the list.
markRead(ids, lastReadIdx, continueChapterId) ==
  LET continueIdx == FirstOf({j \in 1..Len(ids) : ids[j] = continueChapterId})
  IN  [j \in 1..Len(ids) |->
         [id |-> ids[j],
          isRead |-> IF lastReadIdx > 0 THEN j <= lastReadIdx
                     ELSE IF continueChapterId # 0
                          THEN continueIdx > 1 /\ j < continueIdx
                     ELSE FALSE]]

\* The Fiction getFiction builds (title: whether a title element was found).
fictionResult(id, c, viaBrowser) ==
  [id |-> id, title |-> c.title,
   chapters |-> markRead(chapterIds(c, viaBrowser),
                         lastReadChapterIdx(c, viaBrowser), c.continueId),
   continueChapterId |-> c.continueId]

\* The rows of a follows list whose next chapter is a /chapter/next/ redirect.
NeedResolution(list) ==
  {k \in 1..Len(list) : list[k].nextChapterUrl /\ list[k].nextChapterId = 0}

\* A followed fiction as cached: the temporary _nextChapterUrl is dropped
\* once resolved, and the id resolved (0: not resolved) is filled in.
followResolved(list, out) ==
  [k \in 1..Len(list) |->
     IF k \in NeedResolution(list)
     THEN [list[k] EXCEPT !.nextChapterId = out[k], !.nextChapterUrl = FALSE]
     ELSE list[k]]

\* A call that returns: its locals (the document, the attempt counter) go.
Done(t, result) ==
  [t EXCEPT !.pc = "done", !.result = result, !.page = FALSE,
            !.content = EmptyPage, !.attempts = 0]

\* The effect of a finished step: the call, the cache rows, the timers.
Effect(t, rows, tm) == [task |-> t, rows |-> rows, timers |-> tm]

\* parseInt(s, 10) on characters without blanks or sign: the value of the
\* digits up to the first other character, NaN when there is none.
RECURSIVE parseInt(_)
parseInt(s) ==
  LET isDigit(j) == \E d \in 1..10 : DigitChars[d] = s[j]
      n == Cardinality({j \in 1..Len(s) : \A m \in 1..j : isDigit(m)})
      last == CHOOSE d \in 1..10 : DigitChars[d] = s[n]
  IN  IF n = 0 THEN NaN
      ELSE IF n = 1 THEN last - 1
      ELSE parseInt(SubSeq(s, 1, n - 1)) * 10 + (last - 1)

\* text.match(/([\d,]+)/): the first run of digits and commas, as long as it
\* goes; <<>> when the text has none (a null match).
statMatch(text) ==
  LET in(j) == text[j] = "," \/ \E d \in 1..10 : DigitChars[d] = text[j]
      starts == {j \in 1..Len(text) : in(j)}
      first == CHOOSE j \in starts : \A m \in starts : j <= m
      last == CHOOSE j \in first..Len(text) :
                /\ \A m \in first..j : in(m)
                /\ (j = Len(text) \/ ~in(j + 1))
  IN  IF starts = {} THEN <<>> ELSE SubSeq(text, first, last)

\* parseFictionList on the items that parse: num is undefined without a
\* match, else parseInt of the match with its commas removed; followers takes
\* it under the fa-users icon and pages under fa-book, unless it is
\* undefined.
parseFictionList(list) ==
  [j \in 1..Len(list) |->
     LET numMatch == statMatch(list[j].text)
         isComma(ch) == ch = ","
         notComma(ch) == ch # ","
         num == IF numMatch = <<>> THEN undefined
                ELSE parseInt(SelectSeq(numMatch, notComma))
     IN  [id |-> list[j].id,
          followers |-> IF list[j].icon = "fa-users" THEN num ELSE undefined,
          pages |-> IF list[j].icon = "fa-book" THEN num ELSE undefined]]

\* getFollows / getToplist: if (fictions.length > 0) setCache(key, json, ttl)
listDone(t, list, rows, now, tm) ==
  LET key == CacheKeyOf(t.op, t.arg)
      json == IF t.op = "getToplist"
              THEN JSONstringifyFictions(list) ELSE JSONstringify(list)
  IN  IF Len(list) > 0
      THEN Effect([Done(t, list) EXCEPT !.wrote = @ \cup {key}],
                  setCacheRows(rows, now, key, json, t.ttl), tm)
      ELSE Effect(Done(t, list), rows, tm)

\* getFiction: setCache(cacheKey, JSON.stringify(fiction), ttl), always.
fictionDone(t, c, viaBrowser, rows, now, tm) ==
  LET key == FictionKey(t.arg)
      fiction == fictionResult(t.arg, c, viaBrowser)
  IN  Effect([Done(t, fiction) EXCEPT !.wrote = @ \cup {key}],
             setCacheRows(rows, now, key, JSONstringify(fiction), t.ttl), tm)

\* A faulty getChapter: the pre-caching read schedules a pre-cache as well.
chapterDoneAlwaysSchedules(t, c, viaBrowser, rows, now, tm) ==
  LET key == ChapterKey(t.arg)
      res == chapterResult(t.arg, c, viaBrowser)
      isPreCaching == t.hasTtl
      written == setCacheRows(rows, now, key, JSONstringify(res), CACHE_TTL_CHAPTER)
      gone == IF isPreCaching THEN {}
              ELSE (IF res.fictionId # 0 THEN {FictionKey(res.fictionId)} ELSE {})
                   \cup {FollowsKey}
      kept == IF isPreCaching THEN written
              ELSE IF res.fictionId # 0
                   THEN deleteCacheRows(deleteCacheRows(written, FictionKey(res.fictionId)),
                                        FollowsKey)
                   ELSE deleteCacheRows(written, FollowsKey)
  IN  Effect([Done(t, res) EXCEPT !.wrote = @ \cup {key}, !.deleted = @ \cup gone],
             kept,
             IF res.nextChapterId # 0
             THEN tm (+) SetToBag({res.nextChapterId}) ELSE tm)

\* A faulty getChapter: it stores the chapter under the TTL the caller gave.
chapterDoneSuppliedTtl(t, c, viaBrowser, rows, now, tm) ==
  LET key == ChapterKey(t.arg)
      res == chapterResult(t.arg, c, viaBrowser)
      isPreCaching == t.hasTtl
      written == setCacheRows(rows, now, key, JSONstringify(res),
                              IF isPreCaching THEN t.ttl ELSE CACHE_TTL_CHAPTER)
      gone == IF isPreCaching THEN {}
              ELSE (IF res.fictionId # 0 THEN {FictionKey(res.fictionId)} ELSE {})
                   \cup {FollowsKey}
      kept == IF isPreCaching THEN written
              ELSE IF res.fictionId # 0
                   THEN deleteCacheRows(deleteCacheRows(written, FictionKey(res.fictionId)),
                                        FollowsKey)
                   ELSE deleteCacheRows(written, FollowsKey)
  IN  Effect([Done(t, res) EXCEPT !.wrote = @ \cup {key}, !.deleted = @ \cup gone],
             kept,
             IF res.nextChapterId # 0 /\ ~isPreCaching
             THEN tm (+) SetToBag({res.nextChapterId}) ELSE tm)

\* A faulty getChapter: the pre-caching read invalidates as a live read does.
chapterDoneAlwaysInvalidates(t, c, viaBrowser, rows, now, tm) ==
  LET key == ChapterKey(t.arg)
      res == chapterResult(t.arg, c, viaBrowser)
      isPreCaching == t.hasTtl
      written == setCacheRows(rows, now, key, JSONstringify(res), CACHE_TTL_CHAPTER)
      gone == (IF res.fictionId # 0 THEN {FictionKey(res.fictionId)} ELSE {})
              \cup {FollowsKey}
      kept == IF res.fictionId # 0
              THEN deleteCacheRows(deleteCacheRows(written, FictionKey(res.fictionId)),
                                   FollowsKey)
              ELSE deleteCacheRows(written, FollowsKey)
  IN  Effect([Done(t, res) EXCEPT !.wrote = @ \cup {key}, !.deleted = @ \cup gone],
             kept,
             IF res.nextChapterId # 0 /\ ~isPreCaching
             THEN tm (+) SetToBag({res.nextChapterId}) ELSE tm)

\* getChapter: setCache with CACHE_TTL.CHAPTER, always; on a live read delete
\* fiction:<fictionId> (when the id is not 0) and follows, and schedule the
\* pre-cache of the next chapter.
chapterDone(t, c, viaBrowser, rows, now, tm) ==
  LET key == ChapterKey(t.arg)
      res == chapterResult(t.arg, c, viaBrowser)
      isPreCaching == t.hasTtl
      written == setCacheRows(rows, now, key, JSONstringify(res), CACHE_TTL_CHAPTER)
      gone == IF isPreCaching THEN {}
              ELSE (IF res.fictionId # 0 THEN {FictionKey(res.fictionId)} ELSE {})
                   \cup {FollowsKey}
      kept == IF isPreCaching THEN written
              ELSE IF res.fictionId # 0
                   THEN deleteCacheRows(deleteCacheRows(written, FictionKey(res.fictionId)),
                                        FollowsKey)
                   ELSE deleteCacheRows(written, FollowsKey)
  IN  Effect([Done(t, res) EXCEPT !.wrote = @ \cup {key}, !.deleted = @ \cup gone],
             kept,
             IF res.nextChapterId # 0 /\ ~isPreCaching
             THEN tm (+) SetToBag({res.nextChapterId}) ELSE tm)

\* getFollows with follows to resolve, up to its next await: parallelLimit
\* calls resolveRedirectUrl for them, which returns null when no session
\* cookie is stored (the list is cached as it is) and else issues the HEAD
\* request, with the headers resolveRedirectHeaders.
followsParsed(t, list, rows, now, tm, ck) ==
  IF hasSessionCookiesOf(ck)
  THEN Effect([t EXCEPT !.pc = "resolve", !.page = FALSE, !.heads = TRUE,
                        !.httpCalls = @ + Cardinality(NeedResolution(list)),
                        !.headCookie = "Cookie" \in resolveRedirectHeaders],
              rows, tm)
  ELSE listDone(t, followResolved(list, [k \in 1..Len(list) |-> 0]), rows, now, tm)

\* What a call does with the document `c` once getPage has returned it and
\* any page is closed; ck are the cookies stored then.
finish(t0, c, viaBrowser, rows, now, tm, ck) ==
  LET t == [t0 EXCEPT !.content = c]
  IN  CASE t.op = "getFollows" ->
             IF NeedResolution(c.list) # {}
             THEN followsParsed(t, c.list, rows, now, tm, ck)
             ELSE listDone(t, c.list, rows, now, tm)
        [] t.op = "getToplist" ->
             listDone(t, parseFictionList(c.list), rows, now, tm)
        [] t.op = "getFiction" -> fictionDone(t, c, viaBrowser, rows, now, tm)
        [] t.op = "getChapter" -> chapterDone(t, c, viaBrowser, rows, now, tm)
        [] t.op = "validateCookies" -> Effect(Done(t, <<~c.login>>), rows, tm)
        [] OTHER -> Effect(Done(t, c.list), rows, tm)

\* What fetch() may settle with for the POST of setBookmark (redirect:
\* "manual"): a response with a status, or a rejection.
BookmarkResponses ==
  {[rejected |-> FALSE, status |-> st] : st \in {200, 302, 403, 500}}
  \cup {[rejected |-> TRUE, status |-> 0]}

\* response.ok: a status in 200..299.
ResponseOk(response) == response.status >= 200 /\ response.status <= 299

\* A faulty invalidation: the follows list is dropped whatever the type.
setBookmarkDoneDropsFollows(t, response, rows) ==
  IF response.rejected
  THEN Effect(Done(t, [success |-> FALSE, error |-> "Network error"]), rows, {})
  ELSE IF ResponseOk(response) \/ response.status = 302
  THEN Effect([Done(t, [success |-> TRUE, error |-> "none"])
                 EXCEPT !.deleted = @ \cup {FictionKey(t.arg), FollowsKey}],
              deleteCacheRows(deleteCacheRows(rows, FictionKey(t.arg)), FollowsKey), {})
  ELSE Effect(Done(t, [success |-> FALSE, error |-> "Request failed"]), rows, {})

\* setBookmark after its await: on a status that is ok or 302 delete
\* fiction:<id> and, for type follow, follows, and return success; on another
\* status or a rejection (caught) return a failure.
setBookmarkDone(t, response, rows) ==
  IF response.rejected
  THEN Effect(Done(t, [success |-> FALSE, error |-> "Network error"]), rows, {})
  ELSE IF ResponseOk(response) \/ response.status = 302
  THEN IF t.type = "follow"
       THEN Effect([Done(t, [success |-> TRUE, error |-> "none"])
                      EXCEPT !.deleted = @ \cup {FictionKey(t.arg), FollowsKey}],
                   deleteCacheRows(deleteCacheRows(rows, FictionKey(t.arg)), FollowsKey),
                   {})
       ELSE Effect([Done(t, [success |-> TRUE, error |-> "none"])
                      EXCEPT !.deleted = @ \cup {FictionKey(t.arg)}],
                   deleteCacheRows(rows, FictionKey(t.arg)), {})
  ELSE Effect(Done(t, [success |-> FALSE, error |-> "Request failed"]), rows, {})

\* A call that throws: validateCookies catches and returns false.
Fail(t, err) ==
  IF t.op = "validateCookies"
  THEN [t EXCEPT !.pc = "done", !.result = <<FALSE>>, !.error = err,
                 !.content = EmptyPage, !.attempts = 0]
  ELSE [t EXCEPT !.pc = "failed", !.error = err, !.content = EmptyPage,
                 !.attempts = 0]

Settle(t) == IF t.pc = "failed" THEN Fail(t, t.error) ELSE t

(***************************************************************************)
(* The steps of a call: one action per await.                              *)
(***************************************************************************)
\* The open pages are records [owner, cx, ctx]: the slot of the call that
\* holds the handle ("nobody": no call holds it any more), the context it
\* was opened in and that context's kind.
OwnPages(i) == {p \in pages : p.owner = i}
PageAlive(i) == OwnPages(i) # {}

\* The call in slot i ends without page.close(): its page stays open and
\* nothing holds its handle.
Abandon(i) ==
  {[p EXCEPT !.owner = IF p.owner = i THEN "nobody" ELSE p.owner] : p \in pages}

\* The pages that are left when the contexts `gone` are: closing a context,
\* or losing the browser, closes the pages opened in it.
PagesLeft(f) == {p \in pages : ContextsAt(f, p.cx) # {}}

Apply(i, e) ==
  /\ tasks' = [tasks EXCEPT ![i] = e.task]
  /\ cache' = e.rows
  /\ timers' = e.timers

\* The slot a new call or run takes: the first one that is free.
FreeRuns == {k \in Slots : cycles[k].pc = "idle" /\ tasks[k].pc = "idle"}
FreeRun == IF RouteSlot \in FreeRuns THEN RouteSlot ELSE TimerSlot

\* A faulty startJobs: no test of jobsRunning.
startJobsUnguarded(j) ==
  [j EXCEPT !.jobsRunning = TRUE, !.initialRuns = @ + 1,
            !.followsJobInterval = TRUE, !.toplistsJobInterval = TRUE,
            !.followsArmed = @ + 1, !.toplistsArmed = @ + 1]

\* startJobs(): nothing when jobs are running; else set the flag, schedule
\* the initial run (setTimeout) and arm both interval timers.  The fields
\* followsJobInterval and toplistsJobInterval say whether the variable holds
\* a timer, followsArmed and toplistsArmed count the interval timers armed.
startJobs(j) ==
  IF j.jobsRunning THEN j
  ELSE [j EXCEPT !.jobsRunning = TRUE, !.initialRuns = @ + 1,
                 !.followsJobInterval = TRUE, !.toplistsJobInterval = TRUE,
                 !.followsArmed = @ + 1, !.toplistsArmed = @ + 1]

\* stopJobs(): clear the interval each variable holds, and the flag.
stopJobs(j) ==
  [j EXCEPT !.followsJobInterval = FALSE, !.toplistsJobInterval = FALSE,
            !.followsArmed = IF j.followsJobInterval THEN @ - 1 ELSE @,
            !.toplistsArmed = IF j.toplistsJobInterval THEN @ - 1 ELSE @,
            !.jobsRunning = FALSE]

\* getPage after `await ensureBrowser()`: throw when a context is missing,
\* else `await ctx.newPage()` on the context of the mode.
getPageGoesOn(t, f) ==
  IF f.context = 0 \/ f.anonContext = 0 THEN Fail(t, "ContextsNotInitialized")
  ELSE [t EXCEPT !.pc = "newPage",
                 !.cx = IF t.useAnon THEN f.anonContext ELSE f.context]

\* What the caller of a browser function does once it has returned or
\* thrown (done: "returned", "thrown"): getPage goes on after
\* ensureBrowser(), or throws its error; validateCookies goes on to getPage,
\* or catches the error and returns false.
callGoesOn(t, done, found, f, ck) ==
  IF done = "thrown" THEN Fail(t, "RetrievalFailed")
  ELSE IF t.pc = "ensure" THEN getPageGoesOn([t EXCEPT !.found = found], f)
  ELSE Settle(getPageEnter(t, ck))

\* A step of a browser function has taken caller p to browser state f, with
\* the calls standing as in ts.  While the function awaits, nothing else
\* moves.  Once it has returned or thrown the caller goes on: the call in
\* slot p; index.ts (`.then(() => startJobs())`, skipped on an error); the
\* clear-cookies route, which only answers.
Resume(p, f, ts, ck) ==
  LET r == f.procs[p]
      g == [f EXCEPT !.procs[p] = IdleProc]
  IN  IF r.pc \notin {"returned", "thrown"}
      THEN /\ fleet' = f
           /\ tasks' = ts
           /\ jobs' = jobs
      ELSE /\ fleet' = g
           /\ tasks' = IF p \in Slots
                       THEN [ts EXCEPT ![p] = callGoesOn(ts[p], r.pc, r.found, g, ck)]
                       ELSE ts
           /\ jobs' = IF p = "startup" /\ r.pc = "returned" THEN startJobs(jobs) ELSE jobs

\* index.ts: seedAdminUser().then(() => initBrowser()).then(() => startJobs()).
StartupCalls ==
  /\ ~fleet.started
  /\ Resume("startup",
            initBrowserCalled([fleet EXCEPT !.started = TRUE], "startup", cookies),
            tasks, cookies)
  /\ UNCHANGED <<storeVars, ghostVars, imageCache, epub, cookies, pages, timers, calls,
                 jumps, cycles, pool>>

\* `browser = await firefox.launch(...)` settles for caller p.
LaunchSettles(p) ==
  /\ fleet.procs[p].pc = "launch"
  /\ Resume(p, launchSettled(fleet, p, cookies), tasks, cookies)
  /\ UNCHANGED <<storeVars, ghostVars, imageCache, epub, cookies, pages, timers, calls,
                 jumps, cycles, pool>>

\* `await context.close()` or `await anonContext.close()` settles for p.
ContextCloseSettles(p) ==
  /\ fleet.procs[p].pc \in {"contextClose", "anonClose"}
  /\ pages' = PagesLeft(closeContext(fleet, fleet.procs[p].cx))
  /\ Resume(p, closeSettled(fleet, p, cookies), tasks, cookies)
  /\ UNCHANGED <<storeVars, ghostVars, imageCache, epub, cookies, timers, calls,
                 jumps, cycles, pool>>

\* `await browser.newContext(...)` settles for caller p.
NewContextSettles(p) ==
  /\ fleet.procs[p].pc \in {"contextNew", "anonNew"}
  /\ Resume(p, newContextSettled(fleet, p), tasks, cookies)
  /\ UNCHANGED <<storeVars, ghostVars, imageCache, epub, cookies, pages, timers, calls,
                 jumps, cycles, pool>>

\* `await context.addInitScript(...)` settles for caller p.
InitScriptSettles(p) ==
  /\ fleet.procs[p].pc \in {"contextInit", "anonInit"}
  /\ Resume(p, initScriptSettled(fleet, p, cookies), tasks, cookies)
  /\ UNCHANGED <<storeVars, ghostVars, imageCache, epub, cookies, pages, timers, calls,
                 jumps, cycles, pool>>

\* `await context.addCookies(cookies)` settles for caller p.
AddCookiesSettles(p) ==
  /\ fleet.procs[p].pc = "contextCookies"
  /\ Resume(p, addCookiesSettled(fleet, p, cookies), tasks, cookies)
  /\ UNCHANGED <<storeVars, ghostVars, imageCache, epub, cookies, pages, timers, calls,
                 jumps, cycles, pool>>

\* The browser process b dies.
BrowserDisconnects(b) ==
  /\ b \in fleet.running
  /\ fleet.crashes < MaxCrashes
  /\ fleet' = disconnected(fleet, b)
  /\ pages' = PagesLeft(fleet')
  /\ UNCHANGED <<storeVars, ghostVars, imageCache, epub, cookies, tasks, timers, calls,
                 jumps, jobVars, pool>>

\* process.exit(0) of the SIGINT handler has run: nothing runs any more.
Exited == fleet.procs["shutdown"].pc = "exited"

\* The SIGINT handler has been called.
ShuttingDown == fleet.procs["shutdown"].pc # "idle"

\* SIGINT: stopJobs(), then closeBrowser() up to its first await.
Sigint ==
  /\ fleet.procs["shutdown"].pc = "idle"
  /\ fleet' = closeBrowserFrom(fleet, "shutdown", 1)
  /\ jobs' = stopJobs(jobs)
  /\ UNCHANGED <<storeVars, ghostVars, imageCache, epub, cookies, pages, tasks, timers,
                 calls, jumps, cycles, pool>>

\* `await anonContext.close()`, `await context.close()` or
\* `await browser.close()` of closeBrowser() settles; after the last of them
\* the handler calls process.exit(0).
CloseBrowserSettles ==
  /\ fleet.procs["shutdown"].pc \in {"closingAnon", "closingContext", "closingBrowser"}
  /\ fleet' = closeBrowserSettled(fleet, "shutdown")
  /\ pages' = PagesLeft(fleet')
  /\ UNCHANGED <<storeVars, ghostVars, imageCache, epub, cookies, tasks, timers, calls,
                 jumps, jobVars, pool>>

\* A page route is served: it answers without a call unless
\* hasSessionCookies(), then calls its Domain Service operation; the
\* bookmark route awaits parseFormData(req) before that.
BeginRouteCall(i, call) ==
  /\ i \in FreeRuns
  /\ hasSessionCookies
  /\ calls' = calls + 1
  /\ tasks' = [tasks EXCEPT ![i] =
        IF call.op = "setBookmark" THEN [call EXCEPT !.pc = "form"]
        ELSE beginCall(call, cache, clock, cookies)]
  /\ UNCHANGED <<storeVars, ghostVars, imageCache, epub, fleet, cookies, pages, timers,
                 jumps, jobVars, pool>>

\* An operation of the Domain Service is called, with the arguments of
\* `call`.
BeginCall(i, call) ==
  /\ i \in FreeRuns
  /\ calls' = calls + 1
  /\ tasks' = [tasks EXCEPT ![i] = beginCall(call, cache, clock, cookies)]
  /\ UNCHANGED <<storeVars, ghostVars, imageCache, epub, fleet, cookies, pages, timers,
                 jumps, jobVars, pool>>

\* A JSON route of the reader script is served: it calls getChapter at once,
\* with no test of the session cookie before the call.
BeginApiCall(i, call) ==
  /\ call \in ApiCalls
  /\ BeginCall(i, call)

\* parseFormData(req) of the bookmark route resolves: setBookmark is called.
FormParsed(i) ==
  /\ tasks[i].pc = "form"
  /\ tasks' = [tasks EXCEPT ![i] = beginCall(@, cache, clock, cookies)]
  /\ UNCHANGED <<storeVars, ghostVars, imageCache, epub, fleet, cookies, pages, timers,
                 calls, jumps, jobVars, pool>>

\* tryHttpFetch returns the document: getPage returns {page: null, content}
\* and the caller runs to its next await or to its end.
HttpOk(i, response) ==
  /\ tasks[i].pc = "http"
  /\ response \in Responses(tasks[i].op, tasks[i].arg)
  /\ tryHttpFetch(response) # Null
  /\ Apply(i, finish(tasks[i], tryHttpFetch(response), FALSE, cache, clock, timers,
                     cookies))
  /\ UNCHANGED <<clock, ghostVars, imageCache, epub, fleet, cookies, pages, calls, jumps,
                 jobVars, pool>>

\* The fast-path response is one that holds "challenge-running".
ChallengeRunning(response) ==
  ~response.rejected /\ response.ok /\ response.html.marker = "challenge-running"

\* tryHttpFetch returns null (a status that is not ok, a challenge marker in
\* the body, a network error): getPage falls back to the browser, with
\* `await ensureBrowser()`.
Fallback(i, response) ==
  /\ tasks[i].pc = "http"
  /\ response \in Responses(tasks[i].op, tasks[i].arg)
  /\ tryHttpFetch(response) = Null
  /\ Resume(i, ensureBrowserCalled(fleet, i, cookies),
            [tasks EXCEPT ![i] = [@ EXCEPT !.pc = "ensure",
                                           !.challenged = ChallengeRunning(response)]],
            cookies)
  /\ UNCHANGED <<storeVars, ghostVars, imageCache, epub, cookies, pages, timers, calls,
                 jumps, cycles, pool>>

\* `await ctx.newPage()` settles: the page is open in that context, and
\* `await page.route(...)` is called on it; on a context that is gone the
\* call rejects and getPage throws.
NewPageSettles(i) ==
  /\ tasks[i].pc = "newPage"
  /\ IF ContextsAt(fleet, tasks[i].cx) # {}
     THEN /\ tasks' = [tasks EXCEPT ![i] =
                [@ EXCEPT !.pc = "route", !.page = TRUE,
                          !.ctxUsed = IF tasks[i].useAnon THEN "anon" ELSE "auth",
                          !.ctxCookies = CookiesOf(fleet, tasks[i].cx)]]
          /\ pages' = pages \cup
                        {[owner |-> i, cx |-> tasks[i].cx,
                          ctx |-> IF tasks[i].useAnon THEN "anon" ELSE "auth"]}
     ELSE /\ tasks' = [tasks EXCEPT ![i] = Fail(@, "RetrievalFailed")]
          /\ pages' = pages
  /\ UNCHANGED <<storeVars, ghostVars, imageCache, epub, fleet, cookies, timers,
                 calls, jumps, jobVars, pool>>

\* `await page.route(...)` settles: the navigation loop starts with its
\* first page.goto.
RouteOk(i) ==
  /\ tasks[i].pc = "route"
  /\ PageAlive(i)
  /\ tasks' = [tasks EXCEPT ![i] = [@ EXCEPT !.pc = "nav", !.navigated = TRUE]]
  /\ UNCHANGED <<storeVars, ghostVars, imageCache, epub, fleet, cookies, pages, timers,
                 calls, jumps, jobVars, pool>>

\* page.route rejects on the page just opened: it stands before getPage's
\* try block, so the error leaves getPage without page.close().
RouteFails(i) ==
  /\ tasks[i].pc = "route"
  /\ tasks' = [tasks EXCEPT ![i] = Fail([@ EXCEPT !.page = FALSE], "RetrievalFailed")]
  /\ pages' = Abandon(i)
  /\ UNCHANGED <<storeVars, ghostVars, imageCache, epub, fleet, cookies, timers,
                 calls, jumps, jobVars, pool>>

\* The await an operation stands at once getPage has returned {page,
\* content} with a page: getChapter `await page.waitForTimeout(2000)` on a
\* live read, else its first page.evaluate; getFiction its page.evaluate;
\* the other operations `await page.close()`.
afterGetPage(t) ==
  CASE t.op = "getChapter" -> IF t.hasTtl THEN "navInfo" ELSE "wait"
    [] t.op = "getFiction" -> "evaluate"
    [] OTHER -> "close"

\* An attempt of the navigation loop that gets the document: getPage returns
\* {page, content}, and the operation runs to its next await on the page.
NavOk(i, c) ==
  /\ tasks[i].pc = "nav"
  /\ PageAlive(i)
  /\ tasks[i].attempts < maxAttempts
  /\ c \in PagesFor(tasks[i].op, tasks[i].arg)
  /\ ~challengeDetected(c)
  /\ tasks' = [tasks EXCEPT ![i] =
        [@ EXCEPT !.attempts = 0, !.content = c, !.pc = afterGetPage(tasks[i])]]
  /\ UNCHANGED <<storeVars, ghostVars, imageCache, epub, fleet, cookies, pages, timers,
                 calls, jumps, jobVars, pool>>

\* An attempt that still shows the challenge: wait and go round again; after
\* maxAttempts the loop ends, getPage throws, the catch closes the page.
NavChallenged(i, c) ==
  /\ tasks[i].pc = "nav"
  /\ PageAlive(i)
  /\ tasks[i].attempts < maxAttempts
  /\ c \in ChallengePages
  /\ challengeDetected(c)
  /\ IF tasks[i].attempts + 1 < maxAttempts
     THEN /\ tasks' = [tasks EXCEPT ![i].attempts = @ + 1]
          /\ pages' = pages
     ELSE /\ tasks' = [tasks EXCEPT ![i] =
                Fail([@ EXCEPT !.attempts = @ + 1, !.page = FALSE], "ChallengeBlocked")]
          /\ pages' = pages \ OwnPages(i)
  /\ UNCHANGED <<storeVars, ghostVars, imageCache, epub, fleet, cookies, timers, calls,
                 jumps, jobVars, pool>>

\* page.goto rejects (no load within SCRAPER_TIMEOUT: "NavigationTimeout";
\* another failure of it or of a later step inside the try block, as on a
\* page that was closed under it: "RetrievalFailed"): the catch closes the
\* page and rethrows.
NavThrows(i, err) ==
  /\ tasks[i].pc = "nav"
  /\ tasks' = [tasks EXCEPT ![i] = Fail([@ EXCEPT !.page = FALSE], err)]
  /\ pages' = pages \ OwnPages(i)
  /\ UNCHANGED <<storeVars, ghostVars, imageCache, epub, fleet, cookies, timers, calls,
                 jumps, jobVars, pool>>

\* getFiction with a page: `await page.evaluate(...)` gives window.chapters;
\* `await page.close()` comes next.
FictionEvaluateOk(i) ==
  /\ tasks[i].pc = "evaluate"
  /\ PageAlive(i)
  /\ tasks' = [tasks EXCEPT ![i].pc = "close"]
  /\ UNCHANGED <<storeVars, ghostVars, imageCache, epub, fleet, cookies, pages, timers,
                 calls, jumps, jobVars, pool>>

\* getFiction with a page: page.evaluate rejects (as on a page that is
\* gone); the catch leaves `chapters` empty, so that the rows of the markup
\* are parsed; `await page.close()` comes next.
FictionEvaluateFails(i) ==
  /\ tasks[i].pc = "evaluate"
  /\ tasks' = [tasks EXCEPT ![i] = [@ EXCEPT !.pc = "close", !.content.jsChapters = <<>>]]
  /\ UNCHANGED <<storeVars, ghostVars, imageCache, epub, fleet, cookies, pages, timers,
                 calls, jumps, jobVars, pool>>

\* getChapter with a page: `await page.waitForTimeout(2000)` (live read),
\* `navInfo = await page.evaluate(...)` or `fictionInfo = await
\* page.evaluate(...)` settles on the page; the next await follows, the
\* last one being `await page.close()`.
ChapterPostOk(i) ==
  /\ tasks[i].pc \in {"wait", "navInfo", "fictionInfo"}
  /\ PageAlive(i)
  /\ tasks' = [tasks EXCEPT ![i].pc =
        CASE @ = "wait" -> "navInfo"
          [] @ = "navInfo" -> "fictionInfo"
          [] OTHER -> "close"]
  /\ UNCHANGED <<storeVars, ghostVars, imageCache, epub, fleet, cookies, pages, timers,
                 calls, jumps, jobVars, pool>>

\* getChapter with a page: waitForTimeout or page.evaluate rejects; nothing
\* catches it, and page.close() is not reached.
ChapterPostFails(i) ==
  /\ tasks[i].pc \in {"wait", "navInfo", "fictionInfo"}
  /\ tasks' = [tasks EXCEPT ![i] = Fail([@ EXCEPT !.page = FALSE], "RetrievalFailed")]
  /\ pages' = Abandon(i)
  /\ UNCHANGED <<storeVars, ghostVars, imageCache, epub, fleet, cookies, timers, calls, jumps,
                 jobVars, pool>>

\* `await page.close()` of an operation settles (it resolves on a page that
\* is gone as well): the page is closed and the operation runs on the
\* document it holds to its next await or to its end.
PageCloseSettles(i) ==
  /\ tasks[i].pc = "close"
  /\ pages' = pages \ OwnPages(i)
  /\ Apply(i, finish(tasks[i], tasks[i].content, TRUE, cache, clock, timers, cookies))
  /\ UNCHANGED <<clock, ghostVars, imageCache, epub, fleet, cookies, calls, jumps, jobVars, pool>>

\* getFollows: the HEAD requests of its /chapter/next/ redirects have
\* settled (each with the final URL's chapter id, or with nothing), and the
\* list is cached.
FollowsResolve(i, out) ==
  /\ tasks[i].pc = "resolve"
  /\ LET t == tasks[i]
         list == t.content.list
         need == NeedResolution(list)
     IN  /\ out \in [1..Len(list) -> {0, NumChapters}]
         /\ \A k \in 1..Len(list) : k \notin need => out[k] = 0
         /\ Apply(i, listDone([t EXCEPT !.heads = FALSE], followResolved(list, out),
                              cache, clock, timers))
  /\ UNCHANGED <<clock, ghostVars, imageCache, epub, fleet, cookies, pages, calls, jumps,
                 jobVars, pool>>

\* The POST of setBookmark settles.
BookmarkSettles(i, response) ==
  /\ tasks[i].pc = "bookmark"
  /\ response \in BookmarkResponses
  /\ LET e == setBookmarkDone(tasks[i], response, cache)
     IN  /\ tasks' = [tasks EXCEPT ![i] = e.task]
         /\ cache' = e.rows
  /\ UNCHANGED <<clock, ghostVars, imageCache, epub, fleet, cookies, pages, timers,
                 calls, jumps, jobVars, pool>>

\* The route handler, or the timer callback, has taken the result (or the
\* error): the slot is free again.
Reap(i) ==
  /\ tasks[i].pc \in {"done", "failed"}
  /\ tasks[i].caller \in {"route", "api", "timer"}
  /\ tasks[i].op # "validateCookies"
  /\ tasks' = [tasks EXCEPT ![i] = IdleTask]
  /\ UNCHANGED <<storeVars, ghostVars, imageCache, epub, fleet, cookies, pages, timers,
                 calls, jumps, jobVars, pool>>

\* The setTimeout of a live read fires: getChapter(nextChapterId, CHAPTER).
TimerFires(i, id) ==
  /\ BagIn(id, timers)
  /\ i \in FreeRuns
  /\ timers' = timers (-) SetToBag({id})
  /\ tasks' = [tasks EXCEPT ![i] =
        beginCall(getChapterPre(id, CACHE_TTL_CHAPTER, "timer"), cache, clock, cookies)]
  /\ UNCHANGED <<storeVars, ghostVars, imageCache, epub, fleet, cookies, pages, calls,
                 jumps, jobVars, pool>>

(***************************************************************************)
(* The environment: settings routes, the clock.                            *)
(***************************************************************************)
\* The cookies POST /settings/cookies may store: the identity cookie, with
\* or without cf_clearance.
CookieForms == {{"identity"}, {"identity", "cf_clearance"}}

\* POST /settings/cookies up to its await inside validateCookies: store the
\* identity cookie (cf_clearance too when given), then validateCookies(),
\* which awaits createContext().
SaveCookies(i, form) ==
  /\ i \in FreeRuns
  /\ form \in CookieForms
  /\ calls < MaxCalls
  /\ calls' = calls + 1
  /\ cookies' = cookies \cup form
  /\ Resume(i, createContextCalled(fleet, i, cookies'),
            [tasks EXCEPT ![i] = beginCall(validateCookies("route"), cache, clock, cookies')],
            cookies')
  /\ UNCHANGED <<storeVars, ghostVars, imageCache, epub, pages, timers, jumps, cycles,
                 pool>>

\* GET /settings/cookies/clear up to its first await: clearCookies(),
\* clearCache(), createContext().
ClearCookies ==
  /\ fleet.procs["settings"].pc = "idle"
  /\ fleet.cleared < MaxClears
  /\ cookies' = {}
  /\ cache' = clearCacheRows(cache)
  /\ Resume("settings",
            createContextCalled([fleet EXCEPT !.cleared = @ + 1], "settings", cookies'),
            tasks, cookies')
  /\ UNCHANGED <<clock, ghostVars, imageCache, epub, pages, timers, calls, jumps, cycles,
                 pool>>

\* Time passes: long enough for a kind of entry to expire.
ClockJump(seconds) ==
  /\ jumps < MaxJumps
  /\ jumps' = jumps + 1
  /\ clock' = clock + seconds * TicksPerSecond
  /\ UNCHANGED <<cache, ghostVars, imageCache, epub, fleet, cookies, pages, tasks, timers,
                 calls, jobVars, pool>>

JumpSeconds == {CACHE_TTL_FICTION}

(***************************************************************************)
(* Background Warmer (services/jobs).                                      *)
(***************************************************************************)
\* A warming run: the job it is in (toplists, follows), whether
\* warmFollowsCache comes after warmToplistsCache (the initial run and
\* triggerCacheWarm), where it stands, the follows list it iterates, its
\* loop index, the chapter it chose to pre-cache, and the two counters of
\* warmToplistsCache (let cached = 0; let skipped = 0).  Of a follow the run
\* reads the id and the last read chapter only.
IdleCycle ==
  [job |-> "none", thenFollows |-> FALSE, pc |-> "idle",
   list |-> <<>>, idx |-> 0, next |-> 0, cached |-> 0, skipped |-> 0]

\* Where a run and its call stand after a synchronous stretch of the run.
Turn(c, t) == [cycle |-> c, task |-> t]

\* The first toplist of `list` at or after position i without a valid entry
\* (isCached(cacheKey) skips the others), Len + 1 if there is none.
FirstUncachedToplist(list, i, rows, now) ==
  LET open == {j \in i..Len(list) : ~isCachedAt(rows, now, ToplistKey(list[j]))}
  IN  IF open = {} THEN Len(list) + 1
      ELSE CHOOSE j \in open : \A m \in open : j <= m

\* The first follow at or after position i whose fiction:<id> is not cached
\* (the others count as skipped), Len + 1 if there is none.
FirstUncachedFollow(list, i, rows, now) ==
  LET open == {j \in i..Len(list) : ~isCachedAt(rows, now, FictionKey(list[j].id))}
  IN  IF open = {} THEN Len(list) + 1
      ELSE CHOOSE j \in open : \A m \in open : j <= m

\* A faulty choice: the continue chapter is not looked at.
nextChapterToReadNoContinue(details, follow) ==
  LET chapters == details.chapters
      at == {j \in 1..Len(chapters) : chapters[j].id = follow.lastReadChapterId}
      lastReadIdx == IF at = {} THEN 0 ELSE CHOOSE j \in at : \A m \in at : j <= m
  IN  IF follow.lastReadChapterId # 0
      THEN IF lastReadIdx # 0 /\ lastReadIdx < Len(chapters)
           THEN chapters[lastReadIdx + 1].id ELSE 0
      ELSE IF Len(chapters) > 0 THEN chapters[1].id ELSE 0

\* The chapter to pre-cache for a follow: the continue chapter, else the one
\* after the last read chapter in the chapter list, else the first chapter;
\* 0 when there is none.
nextChapterToRead(details, follow) ==
  LET chapters == details.chapters
      at == {j \in 1..Len(chapters) : chapters[j].id = follow.lastReadChapterId}
      lastReadIdx == IF at = {} THEN 0 ELSE CHOOSE j \in at : \A m \in at : j <= m
  IN  IF details.continueChapterId # 0 THEN details.continueChapterId
      ELSE IF follow.lastReadChapterId # 0
           THEN IF lastReadIdx # 0 /\ lastReadIdx < Len(chapters)
                THEN chapters[lastReadIdx + 1].id ELSE 0
      ELSE IF Len(chapters) > 0 THEN chapters[1].id ELSE 0

\* What warmFollowsCache reads of the follows getFollows returned.
FollowsRead(follows) ==
  [j \in 1..Len(follows) |->
     [id |-> follows[j].id, lastReadChapterId |-> follows[j].lastReadChapterId]]

\* The loop of warmFollowsCache from position i up to its next await: skip
\* the follows whose fiction is cached, then call getFiction(fiction.id) for
\* the first that is not, or finish the run.
followsLoop(c, i, rows, now, ck) ==
  LET j == FirstUncachedFollow(c.list, i, rows, now)
  IN  IF j > Len(c.list) THEN Turn(IdleCycle, IdleTask)
      ELSE Turn([c EXCEPT !.pc = "fiction", !.idx = j, !.next = 0],
                beginCall(getFiction(c.list[j].id, CACHE_TTL_FICTION, "job"), rows, now, ck))

\* warmFollowsCache() up to its first await: return when no session cookie
\* is stored, else await the scraper import.
warmFollowsCache(c, ck) ==
  IF ~hasSessionCookiesOf(ck) THEN Turn(IdleCycle, IdleTask)
  ELSE Turn([c EXCEPT !.job = "follows", !.pc = "import", !.idx = 0,
                      !.cached = 0, !.skipped = 0], IdleTask)

\* The end of warmToplistsCache(): the initial run and triggerCacheWarm go
\* on to warmFollowsCache().
toplistsEnd(c, ck) ==
  IF c.thenFollows THEN warmFollowsCache(c, ck)
  ELSE Turn(IdleCycle, IdleTask)

\* A faulty pass: a toplist passed over counts as cached.
toplistsScanCountsCached(c, i, rows, now) ==
  LET j == FirstUncachedToplist(c.list, i, rows, now)
  IN  [c EXCEPT !.idx = j, !.cached = @ + (j - i)]

\* The loop of warmToplistsCache from position i over the toplists that are
\* cached: if (isCached(cacheKey)) { skipped++ } for each, up to the first
\* that is not (or the end of TOPLISTS).
toplistsScan(c, i, rows, now) ==
  LET j == FirstUncachedToplist(c.list, i, rows, now)
  IN  [c EXCEPT !.idx = j, !.skipped = @ + (j - i)]

\* The loop of warmToplistsCache from position i up to its next await: skip
\* the cached toplists, then call getToplist(toplist, TTL.TOPLIST).
toplistsLoop(c, i, rows, now, ck) ==
  LET s == toplistsScan(c, i, rows, now)
  IN  IF s.idx > Len(s.list) THEN toplistsEnd(s, ck)
      ELSE Turn([s EXCEPT !.pc = "toplist"],
                beginCall(getToplist(s.list[s.idx], CACHE_TTL_TOPLIST, "job"),
                          rows, now, ck))

\* warmToplistsCache() up to its first await (the scraper import); the loop
\* that follows goes over TOPLISTS.
warmToplistsCache(c) ==
  Turn([c EXCEPT !.job = "toplists", !.pc = "import", !.idx = 0, !.list = TOPLISTS],
       IdleTask)

Take(k, turn) ==
  /\ cycles' = [cycles EXCEPT ![k] = turn.cycle]
  /\ tasks' = [tasks EXCEPT ![k] = turn.task]

StartJobs ==
  /\ jobs.runs + jobs.initialRuns < MaxCycles
  /\ jobs' = startJobs(jobs)
  /\ UNCHANGED <<storeVars, ghostVars, imageCache, epub, fleet, cookies, pages, tasks, timers,
                 calls, jumps, cycles, pool>>

StopJobs ==
  /\ jobs.runs < MaxCycles
  /\ jobs' = stopJobs(jobs)
  /\ UNCHANGED <<storeVars, ghostVars, imageCache, epub, fleet, cookies, pages, tasks, timers,
                 calls, jumps, cycles, pool>>

\* The setTimeout of startJobs fires: warmToplistsCache(), then
\* warmFollowsCache().
InitialRunFires ==
  /\ jobs.initialRuns > 0
  /\ FreeRuns # {}
  /\ jobs' = [jobs EXCEPT !.initialRuns = @ - 1, !.runs = @ + 1]
  /\ Take(FreeRun, warmToplistsCache([IdleCycle EXCEPT !.thenFollows = TRUE]))
  /\ UNCHANGED <<storeVars, ghostVars, imageCache, epub, fleet, cookies, pages, timers,
                 calls, jumps, pool>>

\* setInterval(warmFollowsCache, TTL.FOLLOWS * 1000) fires.
FollowsIntervalFires ==
  /\ jobs.followsArmed > 0
  /\ jobs.runs + jobs.initialRuns < MaxCycles
  /\ FreeRuns # {}
  /\ jobs' = [jobs EXCEPT !.runs = @ + 1]
  /\ Take(FreeRun, warmFollowsCache(IdleCycle, cookies))
  /\ UNCHANGED <<storeVars, ghostVars, imageCache, epub, fleet, cookies, pages, timers,
                 calls, jumps, pool>>

\* setInterval(warmToplistsCache, TTL.TOPLIST * 1000) fires.
ToplistsIntervalFires ==
  /\ jobs.toplistsArmed > 0
  /\ jobs.runs + jobs.initialRuns < MaxCycles
  /\ FreeRuns # {}
  /\ jobs' = [jobs EXCEPT !.runs = @ + 1]
  /\ Take(FreeRun, warmToplistsCache(IdleCycle))
  /\ UNCHANGED <<storeVars, ghostVars, imageCache, epub, fleet, cookies, pages, timers,
                 calls, jumps, pool>>

\* triggerCacheWarm() up to its first await: warmToplistsCache(), with
\* warmFollowsCache() to come after it.
triggerCacheWarm == warmToplistsCache([IdleCycle EXCEPT !.thenFollows = TRUE])

\* POST /settings/cookies after validateCookies has returned: on true,
\* triggerCacheWarm() is called (its promise not awaited) and the page is
\* rendered; on false only the page is rendered.
SaveCookiesReturns(i) ==
  /\ tasks[i].op = "validateCookies"
  /\ tasks[i].pc = "done"
  /\ IF tasks[i].result = <<TRUE>>
     THEN /\ jobs' = [jobs EXCEPT !.runs = @ + 1]
          /\ Take(i, triggerCacheWarm)
     ELSE /\ jobs' = jobs
          /\ Take(i, Turn(IdleCycle, IdleTask))
  /\ UNCHANGED <<storeVars, ghostVars, imageCache, epub, fleet, cookies, pages, timers,
                 calls, jumps, pool>>

\* The scraper import resolves: the toplist loop starts, or getFollows() is
\* called.
Imported(k) ==
  /\ cycles[k].pc = "import"
  /\ Take(k, IF cycles[k].job = "toplists"
             THEN toplistsLoop(cycles[k], 1, cache, clock, cookies)
             ELSE Turn([cycles[k] EXCEPT !.pc = "follows"],
                       beginCall(getFollows(CACHE_TTL_FOLLOWS, "job"), cache, clock, cookies)))
  /\ UNCHANGED <<storeVars, ghostVars, imageCache, epub, fleet, cookies, pages, timers,
                 calls, jumps, jobs, pool>>

\* getToplist returned (cached++, await the 2 s delay) or threw (caught: next
\* toplist).
ToplistReturns(k) ==
  /\ cycles[k].pc = "toplist"
  /\ tasks[k].pc \in {"done", "failed"}
  /\ Take(k, IF tasks[k].pc = "done"
             THEN Turn([cycles[k] EXCEPT !.pc = "delay", !.cached = @ + 1], IdleTask)
             ELSE toplistsLoop(cycles[k], cycles[k].idx + 1, cache, clock, cookies))
  /\ UNCHANGED <<storeVars, ghostVars, imageCache, epub, fleet, cookies, pages, timers,
                 calls, jumps, jobs, pool>>

\* getFollows returned (the loop over the follows starts) or threw (the outer
\* catch ends the run).
FollowsReturns(k) ==
  /\ cycles[k].pc = "follows"
  /\ tasks[k].pc \in {"done", "failed"}
  /\ Take(k, IF tasks[k].pc = "done"
             THEN followsLoop([cycles[k] EXCEPT !.list = FollowsRead(tasks[k].result)],
                              1, cache, clock, cookies)
             ELSE Turn(IdleCycle, IdleTask))
  /\ UNCHANGED <<storeVars, ghostVars, imageCache, epub, fleet, cookies, pages, timers,
                 calls, jumps, jobs, pool>>

\* getFiction returned: no chapters, continue; else choose the next chapter
\* and, unless none or cached, call getChapter(nextChapterId,
\* TTL.NEXT_CHAPTER); then the 1 s delay.  getFiction threw: next follow.
FictionReturns(k) ==
  /\ cycles[k].pc = "fiction"
  /\ tasks[k].pc \in {"done", "failed"}
  /\ LET c == cycles[k]
         details == tasks[k].result
         nextChapterId == nextChapterToRead(details, c.list[c.idx])
     IN  Take(k,
           IF tasks[k].pc = "failed" \/ Len(details.chapters) = 0
           THEN followsLoop(c, c.idx + 1, cache, clock, cookies)
           ELSE IF nextChapterId # 0 /\ ~isCached(ChapterKey(nextChapterId))
           THEN Turn([c EXCEPT !.pc = "chapter", !.next = nextChapterId],
                     beginCall(getChapterPre(nextChapterId, CACHE_TTL_CHAPTER, "job"),
                               cache, clock, cookies))
           ELSE Turn([c EXCEPT !.pc = "delay", !.next = nextChapterId], IdleTask))
  /\ UNCHANGED <<storeVars, ghostVars, imageCache, epub, fleet, cookies, pages, timers,
                 calls, jumps, jobs, pool>>

\* A faulty handler: the error of getChapter ends the run.
ChapterReturnsAborts(k) ==
  /\ cycles[k].pc = "chapter"
  /\ tasks[k].pc \in {"done", "failed"}
  /\ Take(k, IF tasks[k].pc = "done"
             THEN Turn([cycles[k] EXCEPT !.pc = "delay"], IdleTask)
             ELSE Turn(IdleCycle, IdleTask))
  /\ UNCHANGED <<storeVars, ghostVars, imageCache, epub, fleet, cookies, pages, timers,
                 calls, jumps, jobs, pool>>

\* getChapter returned (await the 1 s delay) or threw (caught: next follow).
ChapterReturns(k) ==
  /\ cycles[k].pc = "chapter"
  /\ tasks[k].pc \in {"done", "failed"}
  /\ Take(k, IF tasks[k].pc = "done"
             THEN Turn([cycles[k] EXCEPT !.pc = "delay"], IdleTask)
             ELSE followsLoop(cycles[k], cycles[k].idx + 1, cache, clock, cookies))
  /\ UNCHANGED <<storeVars, ghostVars, imageCache, epub, fleet, cookies, pages, timers,
                 calls, jumps, jobs, pool>>

\* The delay between two items is over: the loop goes on.
DelayDone(k) ==
  /\ cycles[k].pc = "delay"
  /\ Take(k, IF cycles[k].job = "toplists"
             THEN toplistsLoop(cycles[k], cycles[k].idx + 1, cache, clock, cookies)
             ELSE followsLoop(cycles[k], cycles[k].idx + 1, cache, clock, cookies))
  /\ UNCHANGED <<storeVars, ghostVars, imageCache, epub, fleet, cookies, pages, timers,
                 calls, jumps, jobs, pool>>

CycleStep(k) ==
  \/ Imported(k)
  \/ ToplistReturns(k)
  \/ FollowsReturns(k)
  \/ FictionReturns(k)
  \/ ChapterReturns(k)
  \/ DelayDone(k)

\* No job started: jobsRunning false, no timer.
NoJobs ==
  [jobsRunning |-> FALSE, followsJobInterval |-> FALSE,
   toplistsJobInterval |-> FALSE, followsArmed |-> 0,
   toplistsArmed |-> 0, initialRuns |-> 0, runs |-> 0]

\* A process that takes requests (Bun.serve), its persisted cookie table
\* empty or holding the session cookie: either index.ts has not called
\* initBrowser() yet (no browser is launched, no job is started), or
\* initBrowser() and startJobs() have run with no request in between.
InitScraper ==
  /\ cookies \in {{}, {"identity"}}
  /\ \/ /\ fleet = NoFleet
        /\ jobs = NoJobs
     \/ /\ fleet = IF hasSessionCookies THEN BrowserUp(cookies)
                  ELSE [NoFleet EXCEPT !.started = TRUE]
        /\ jobs = startJobs(NoJobs)
  /\ pages = {}
  /\ tasks = [i \in Slots |-> IdleTask]
  /\ timers = EmptyBag
  /\ calls = 0
  /\ jumps = 0
  /\ cycles = [k \in Slots |-> IdleCycle]

\* The cache table persists across restarts: it is empty, or holds what an
\* earlier run wrote at time 0 (a follows list, a fiction, its last chapter).
WarmCache ==
  LET row == [id |-> 1, lastReadChapterId |-> 1, nextChapterId |-> NumChapters,
              nextChapterUrl |-> FALSE]
      page == [EmptyPage EXCEPT !.title = TRUE, !.chapters = AllChapters,
                                !.body = 1, !.linkFic = 1]
      r1 == setCacheRows({}, 0, FollowsKey, JSONstringify(<<row>>), CACHE_TTL_FOLLOWS)
      r2 == setCacheRows(r1, 0, FictionKey(1), JSONstringify(fictionResult(1, page, FALSE)),
                         CACHE_TTL_FICTION)
  IN  setCacheRows(r2, 0, ChapterKey(NumChapters),
                   JSONstringify(chapterResult(NumChapters, page, FALSE)), CACHE_TTL_CHAPTER)

PersistedCaches == {{}, WarmCache}

Init ==
  /\ clock = 0
  /\ cache \in PersistedCaches
  /\ imageCache = {}
  /\ epub = EmptyLibrary
  /\ pool = NoPool
  /\ lastCall = NoCall
  /\ lastPut = [k \in StoreKeys |-> NoPut]
  /\ InitScraper

\* The steps of getPage and of the operation around it.
FetchStep(i) ==
  \/ \E response \in Responses(tasks[i].op, tasks[i].arg) : HttpOk(i, response)
  \/ \E response \in Responses(tasks[i].op, tasks[i].arg) : Fallback(i, response)
  \/ NewPageSettles(i)
  \/ RouteOk(i)
  \/ RouteFails(i)
  \/ \E c \in PagesFor(tasks[i].op, tasks[i].arg) : NavOk(i, c)
  \/ \E c \in ChallengePages : NavChallenged(i, c)
  \/ \E err \in {"NavigationTimeout", "RetrievalFailed"} : NavThrows(i, err)
  \/ ChapterPostOk(i)
  \/ ChapterPostFails(i)
  \/ PageCloseSettles(i)
  \/ \E out \in [1..Len(tasks[i].content.list) -> {0, NumChapters}] : FollowsResolve(i, out)

\* The page.evaluate of getFiction.
FictionStep(i) ==
  \/ FictionEvaluateOk(i)
  \/ FictionEvaluateFails(i)

\* The steps of a call whose fast-path request is answered with the
\* document: getPage returns it, the operation parses and stores it.
FastStep(i) ==
  \/ \E response \in Responses(tasks[i].op, tasks[i].arg) : HttpOk(i, response)
  \/ \E out \in [1..Len(tasks[i].content.list) -> {0, NumChapters}] : FollowsResolve(i, out)

CallStep(i) ==
  \/ FetchStep(i)
  \/ FictionStep(i)
  \/ FormParsed(i)
  \/ \E response \in BookmarkResponses : BookmarkSettles(i, response)
  \/ Reap(i)

\* The awaits of a first launch: of the browser, of both contexts.
LaunchStep(p) ==
  \/ LaunchSettles(p)
  \/ NewContextSettles(p)
  \/ InitScriptSettles(p)
  \/ AddCookiesSettles(p)

\* The awaits of the browser functions.
BrowserStep(p) ==
  \/ LaunchStep(p)
  \/ ContextCloseSettles(p)

\* The Domain Service under the requests of the page routes, of the JSON
\* routes and of the clear-cookies route: the calls of MaxCalls requests, the
\* pre-caching reads their timers start, MaxClears clear-cookies requests.
Next ==
  \/ calls < MaxCalls /\ \E call \in PageCalls : BeginRouteCall(FreeRun, call)
  \/ calls < MaxCalls /\ \E call \in ApiCalls : BeginApiCall(FreeRun, call)
  \/ \E i \in Slots : CallStep(i)
  \/ \E p \in Procs : BrowserStep(p)
  \/ \E id \in BagToSet(timers) : TimerFires(FreeRun, id)
  \/ ClearCookies
  \/ \E s \in JumpSeconds : ClockJump(s)

Spec == Init /\ [][Next]_vars

\* The steps of the call in slot i that a timer bounds or that nothing
\* outside the process delays: every page.goto settles within SCRAPER_TIMEOUT,
\* the waits and evaluations on a page settle, createContext and the caller's
\* continuation run.  The fetch() of the fast path and the HEAD requests of
\* the redirect resolution are not among them: they carry no timeout and no
\* abort signal, and settle when the remote site lets them.
TimedStep(i) ==
  \/ \E c \in PagesFor(tasks[i].op, tasks[i].arg) : NavOk(i, c)
  \/ \E c \in ChallengePages : NavChallenged(i, c)
  \/ \E err \in {"NavigationTimeout", "RetrievalFailed"} : NavThrows(i, err)
  \/ FictionEvaluateOk(i)
  \/ FictionEvaluateFails(i)
  \/ ChapterPostOk(i)
  \/ ChapterPostFails(i)
  \/ PageCloseSettles(i)
  \/ NewPageSettles(i)
  \/ RouteOk(i)
  \/ FormParsed(i)
  \/ Reap(i)

\* The Domain Service with its timers running.
SpecLive ==
  /\ Spec
  /\ \A i \in Slots : WF_vars(TimedStep(i))
  /\ \A p \in Procs : WF_vars(BrowserStep(p))
  /\ WF_vars(\E id \in BagToSet(timers) : TimerFires(FreeRun, id))

\* The Background Warmer over the Domain Service: startJobs / stopJobs, the
\* timers, POST /settings/cookies with its triggerCacheWarm, and the calls
\* the runs make, on a site that answers the fast path or leaves it pending.
NextJobs ==
  \/ StartJobs
  \/ StopJobs
  \/ InitialRunFires
  \/ FollowsIntervalFires
  \/ ToplistsIntervalFires
  \/ \E form \in CookieForms : SaveCookies(FreeRun, form)
  \/ \E i \in Slots : SaveCookiesReturns(i)
  \/ \E k \in Slots : Imported(k)
  \/ \E k \in Slots : FollowsReturns(k)
  \/ \E k \in Slots : FictionReturns(k)
  \/ \E k \in Slots : ChapterReturns(k)
  \/ \E k \in Slots : DelayDone(k)
  \/ \E i \in Slots : FastStep(i)
  \/ \E p \in Procs : BrowserStep(p)

\* The row getToplist(slug) wrote at time `at` for a page of one item: the
\* list parseFictionList made of it, under CACHE_TTL.TOPLIST.
CachedToplist(slug, at) ==
  setCacheRows({}, at, ToplistKey(slug),
               JSONstringifyFictions(parseFictionList(<<ToplistItem>>)), CACHE_TTL_TOPLIST)

\* The process has started (initBrowser() and startJobs() have run) on a
\* cache table that holds the toplists, written at time 0 by an earlier run,
\* and nothing else.
InitJobs ==
  /\ clock = 0
  /\ cache = UNION {CachedToplist(TOPLISTS[j], 0) : j \in 1..Len(TOPLISTS)}
  /\ imageCache = {}
  /\ epub = EmptyLibrary
  /\ pool = NoPool
  /\ lastCall = NoCall
  /\ lastPut = [k \in StoreKeys |-> NoPut]
  /\ InitScraper
  /\ fleet.started

SpecJobs == InitJobs /\ [][NextJobs]_vars

\* The scheduler on its own: startJobs, stopJobs and the timers; the runs
\* the timers start go as far as the import of the scraper.
NextTimers ==
  \/ StartJobs
  \/ StopJobs
  \/ InitialRunFires
  \/ FollowsIntervalFires
  \/ ToplistsIntervalFires
  \/ \E k \in Slots : Imported(k)

SpecTimers == Init /\ [][NextTimers]_vars

\* The fiction route on the fiction whose page carries reading-progress
\* markup: getFiction(MarkedFiction), over both paths of getPage.
NextFiction ==
  \/ calls < MaxCalls /\ BeginRouteCall(RouteSlot, getFiction(MarkedFiction, CACHE_TTL_FICTION, "route"))
  \/ \E response \in Responses(tasks[RouteSlot].op, tasks[RouteSlot].arg) :
       HttpOk(RouteSlot, response)
  \/ \E response \in Responses(tasks[RouteSlot].op, tasks[RouteSlot].arg) :
       Fallback(RouteSlot, response)
  \/ LaunchStep(RouteSlot)
  \/ NewPageSettles(RouteSlot)
  \/ RouteOk(RouteSlot)
  \/ RouteFails(RouteSlot)
  \/ \E c \in PagesFor(tasks[RouteSlot].op, tasks[RouteSlot].arg) : NavOk(RouteSlot, c)
  \/ \E c \in ChallengePages : NavChallenged(RouteSlot, c)
  \/ \E err \in {"NavigationTimeout", "RetrievalFailed"} : NavThrows(RouteSlot, err)
  \/ FictionEvaluateOk(RouteSlot)
  \/ FictionEvaluateFails(RouteSlot)
  \/ PageCloseSettles(RouteSlot)
  \/ Reap(RouteSlot)
  \/ \E s \in JumpSeconds : ClockJump(s)

SpecFiction == Init /\ [][NextFiction]_vars

\* The chapter route on the chapter with the decoy markup on its own.
NextSanitize ==
  \/ calls < MaxCalls /\ BeginRouteCall(RouteSlot, getChapterLive(DecoyChapter, "route"))
  \/ \E response \in Responses(tasks[RouteSlot].op, tasks[RouteSlot].arg) :
       HttpOk(RouteSlot, response)
  \/ \E response \in Responses(tasks[RouteSlot].op, tasks[RouteSlot].arg) :
       Fallback(RouteSlot, response)
  \/ LaunchStep(RouteSlot)
  \/ NewPageSettles(RouteSlot)
  \/ RouteOk(RouteSlot)
  \/ RouteFails(RouteSlot)
  \/ \E c \in PagesFor(tasks[RouteSlot].op, tasks[RouteSlot].arg) : NavOk(RouteSlot, c)
  \/ \E c \in ChallengePages : NavChallenged(RouteSlot, c)
  \/ \E err \in {"NavigationTimeout", "RetrievalFailed"} : NavThrows(RouteSlot, err)
  \/ ChapterPostOk(RouteSlot)
  \/ ChapterPostFails(RouteSlot)
  \/ PageCloseSettles(RouteSlot)
  \/ Reap(RouteSlot)
  \/ \E s \in JumpSeconds : ClockJump(s)

SpecSanitize == Init /\ [][NextSanitize]_vars

\* The fetch of the toplist with the stat texts on its own.
NextStats ==
  \/ calls < MaxCalls
     /\ BeginRouteCall(RouteSlot, getToplist(StatToplist, CACHE_TTL_TOPLIST, "route"))
  \/ \E response \in Responses(tasks[RouteSlot].op, tasks[RouteSlot].arg) :
       HttpOk(RouteSlot, response)
  \/ \E response \in Responses(tasks[RouteSlot].op, tasks[RouteSlot].arg) :
       Fallback(RouteSlot, response)
  \/ LaunchStep(RouteSlot)
  \/ NewPageSettles(RouteSlot)
  \/ RouteOk(RouteSlot)
  \/ RouteFails(RouteSlot)
  \/ \E c \in PagesFor(tasks[RouteSlot].op, tasks[RouteSlot].arg) : NavOk(RouteSlot, c)
  \/ \E c \in ChallengePages : NavChallenged(RouteSlot, c)
  \/ \E err \in {"NavigationTimeout", "RetrievalFailed"} : NavThrows(RouteSlot, err)
  \/ PageCloseSettles(RouteSlot)
  \/ Reap(RouteSlot)
  \/ \E s \in JumpSeconds : ClockJump(s)

SpecStats == Init /\ [][NextStats]_vars

\* The initial warming run on its own (warm TOPLISTS, then the follows),
\* in a process that has started with the session cookie stored: the browser
\* is set up, startJobs() has run, and the cache holds what calls of an
\* earlier run wrote.  The process starts CACHE_TTL.TOPLIST seconds after
\* time 0.
WarmStart == CACHE_TTL_TOPLIST * TicksPerSecond

\* The toplist rows of that cache: the toplists after the first NumWarmed
\* hold a valid row, written just before the start; each of the first
\* NumWarmed holds such a row, or a row written at time 0, which has expired
\* and is still in the table, or no row.
ToplistCaches ==
  {UNION {CachedToplist(TOPLISTS[j], IF j \in p[2] THEN 0 ELSE WarmStart) :
            j \in (1..Len(TOPLISTS)) \ p[1]} :
     p \in {q \in (SUBSET (1..NumWarmed)) \X (SUBSET (1..NumWarmed)) : q[1] \cap q[2] = {}}}

\* The other rows of that cache: the follows list (one or two followed
\* fictions, each never read, or last read at a chapter with a successor, at
\* the last chapter, or at a chapter no longer listed) with or without the
\* last chapter, or no follows list.
LastReads == {0, 1, NumChapters, NumChapters + 1}

WarmedFollow(f, lastRead) ==
  [id |-> f, lastReadChapterId |-> lastRead,
   nextChapterId |-> IF lastRead = 0 THEN 1 ELSE 0, nextChapterUrl |-> FALSE]

WarmedFollows ==
  {<<WarmedFollow(1, a)>> : a \in LastReads}
  \cup {<<WarmedFollow(1, a), WarmedFollow(2, b)>> : a \in LastReads, b \in {0, 1}}

FollowsCaches ==
  {{}} \cup
  {setCacheRows(chapters, WarmStart, FollowsKey, JSONstringify(list), CACHE_TTL_FOLLOWS) :
     list \in WarmedFollows,
     chapters \in {{}, setCacheRows({}, WarmStart, ChapterKey(NumChapters),
                        JSONstringify(chapterResult(NumChapters,
                           [EmptyPage EXCEPT !.body = 1, !.linkFic = 1], FALSE)),
                        CACHE_TTL_CHAPTER)}}

InitWarm ==
  /\ clock = WarmStart
  /\ cache \in {t \cup f : t \in ToplistCaches, f \in FollowsCaches}
  /\ imageCache = {}
  /\ epub = EmptyLibrary
  /\ pool = NoPool
  /\ lastCall = NoCall
  /\ lastPut = [k \in StoreKeys |-> NoPut]
  /\ cookies = {"identity"}
  /\ fleet = BrowserUp(cookies)
  /\ pages = {}
  /\ tasks = [i \in Slots |-> IdleTask]
  /\ timers = EmptyBag
  /\ calls = 0
  /\ jumps = 0
  /\ jobs = startJobs(NoJobs)
  /\ cycles = [k \in Slots |-> IdleCycle]

NextWarm ==
  \/ InitialRunFires
  \/ \E k \in Slots : CycleStep(k)
  \/ \E i \in Slots : FetchStep(i)
  \/ \E i \in Slots : FictionStep(i)

SpecWarm == InitWarm /\ [][NextWarm]_vars

(***************************************************************************)
(* The Cache Store on its own: any caller, any key, any TTL, any time.     *)
(***************************************************************************)
StoreContents == {<<"raw", 1>>, <<"raw", 2>>}
StoreTtls == 0..MaxTtl

InitCache ==
  /\ clock = 0
  /\ cache = {}
  /\ imageCache = {}
  /\ epub = EmptyLibrary
  /\ pool = NoPool
  /\ lastCall = NoCall
  /\ lastPut = [k \in StoreKeys |-> NoPut]
  /\ InitScraper
  /\ fleet.started

\* setCache(url, content, ttlSeconds)
CacheSet(url, content, ttl) ==
  /\ cache' = setCacheRows(cache, clock, url, content, ttl)
  /\ lastPut' = IF url \in DOMAIN lastPut
                THEN [lastPut EXCEPT ![url] =
                        [live |-> TRUE, at |-> clock, ttl |-> ttl, content |-> content]]
                ELSE lastPut
  /\ lastCall' = [op |-> "setCache", url |-> url, result |-> Null,
                  before |-> RowsOf(cache, url)]
  /\ UNCHANGED <<clock, imageCache, epub, fleet, scraperVars, pool>>

\* A faulty read: getCache drops the row it finds expired.
CacheGetPurging(url) ==
  /\ lastCall' = [op |-> "getCache", url |-> url, result |-> getCache(url),
                  before |-> RowsOf(cache, url)]
  /\ cache' = IF getCache(url) = Null THEN cache \ RowsOf(cache, url) ELSE cache
  /\ UNCHANGED <<clock, lastPut, imageCache, epub, fleet, scraperVars, pool>>

\* getCache(url)
CacheGet(url) ==
  /\ lastCall' = [op |-> "getCache", url |-> url, result |-> getCache(url),
                  before |-> RowsOf(cache, url)]
  /\ UNCHANGED <<clock, cache, lastPut, imageCache, epub, fleet, scraperVars, pool>>

\* isCached(url)
CacheIsCached(url) ==
  /\ lastCall' = [op |-> "isCached", url |-> url, result |-> <<isCached(url)>>,
                  before |-> RowsOf(cache, url)]
  /\ UNCHANGED <<clock, cache, lastPut, imageCache, epub, fleet, scraperVars, pool>>

\* clearCache()
CacheClear ==
  /\ cache # {}
  /\ cache' = clearCacheRows(cache)
  /\ lastPut' = [k \in DOMAIN lastPut |-> NoPut]
  /\ lastCall' = [NoCall EXCEPT !.op = "clearCache"]
  /\ UNCHANGED <<clock, imageCache, epub, fleet, scraperVars, pool>>

\* clearExpiredCache(); the record keeps how many rows each table lost.
CacheClearExpired ==
  /\ LET kept == clearExpiredCache(cache, imageCache, clock)
     IN  /\ cache' = kept[1]
         /\ imageCache' = kept[2]
  /\ lastCall' = [NoCall EXCEPT !.op = "clearExpiredCache",
                                !.result = <<Cardinality(cache \ cache'),
                                             Cardinality(imageCache \ imageCache')>>]
  /\ UNCHANGED <<clock, lastPut, scraperVars, epub, fleet, pool>>

\* Time passes.
Tick ==
  /\ clock < MaxClock
  /\ clock' = clock + 1
  /\ lastCall' = [NoCall EXCEPT !.op = "tick"]
  /\ UNCHANGED <<cache, lastPut, imageCache, epub, fleet, scraperVars, pool>>

NextCache ==
  \/ \E k \in StoreKeys, c \in StoreContents, t \in StoreTtls : CacheSet(k, c, t)
  \/ \E k \in StoreKeys : CacheGet(k)
  \/ \E k \in StoreKeys : CacheIsCached(k)
  \/ CacheClear
  \/ CacheClearExpired
  \/ Tick

SpecCache == InitCache /\ [][NextCache]_vars

(***************************************************************************)
(* The Cache Store's maintenance operations (the settings page): both      *)
(* tables, purge by type, statistics.                                      *)
(***************************************************************************)
\* The keys of the text table here, and the one image cached (under a key
\* that is also a text key).
TextKeys == {ChapterKey(1), ChapterKey(2), FictionKey(1)}
ImageKeys == {ChapterKey(1)}
\* The types GET /settings/cache/clear/<type> is called with: chapter,
\* fiction, Chapter, c_apter, % and toplist.
PurgeTypes ==
  {<<"c", "h", "a", "p", "t", "e", "r">>, <<"f", "i", "c", "t", "i", "o", "n">>,
   <<"C", "h", "a", "p", "t", "e", "r">>, <<"c", "_", "a", "p", "t", "e", "r">>,
   <<"%">>, <<"t", "o", "p", "l", "i", "s", "t">>}
\* The value and the TTL (seconds) of every put here.
MaintContent == <<"{", "}">>
MaintTtls == {1}

InitStore ==
  /\ clock = 0
  /\ cache = {}
  /\ imageCache = {}
  /\ epub = EmptyLibrary
  /\ pool = NoPool
  /\ lastCall = NoCall
  /\ lastPut = <<>>
  /\ InitScraper
  /\ fleet.started

\* clearCacheByType(type)
CacheClearByType(type) ==
  /\ LET res == clearCacheByType(cache, type)
     IN  /\ cache' = res.rows
         /\ lastCall' = [op |-> "clearCacheByType", url |-> type,
                         result |-> <<res.changes>>, before |-> {}]
  /\ UNCHANGED <<clock, lastPut, imageCache, epub, fleet, scraperVars, pool>>

\* getCacheStats()
CacheStats ==
  /\ lastCall' = [NoCall EXCEPT !.op = "getCacheStats",
                                !.result = getCacheStats(cache, imageCache, clock)]
  /\ UNCHANGED <<clock, cache, lastPut, imageCache, epub, fleet, scraperVars, pool>>

\* setImageCache(url, data, contentType, ttlSeconds)
ImageSet(url, data, contentType, ttl) ==
  /\ imageCache' = setImageCacheRows(imageCache, clock, url, data, contentType, ttl)
  /\ lastCall' = [op |-> "setImageCache", url |-> url, result |-> Null,
                  before |-> {}]
  /\ UNCHANGED <<clock, cache, lastPut, scraperVars, epub, fleet, pool>>

\* getImageCache(url)
ImageGet(url) ==
  /\ lastCall' = [op |-> "getImageCache", url |-> url, result |-> getImageCache(url),
                  before |-> {}]
  /\ UNCHANGED <<clock, cache, lastPut, imageCache, epub, fleet, scraperVars, pool>>

\* clearImageCache(), returning result.changes
ImageClear ==
  /\ imageCache' = clearImageCacheRows(imageCache)
  /\ lastCall' = [NoCall EXCEPT !.op = "clearImageCache",
                                !.result = <<Cardinality(imageCache)>>]
  /\ UNCHANGED <<clock, cache, lastPut, scraperVars, epub, fleet, pool>>

NextStore ==
  \/ \E k \in TextKeys, t \in MaintTtls : CacheSet(k, MaintContent, t)
  \/ \E k \in TextKeys : CacheGet(k)
  \/ \E k \in TextKeys : CacheIsCached(k)
  \/ CacheClear
  \/ CacheClearExpired
  \/ \E type \in PurgeTypes : CacheClearByType(type)
  \/ CacheStats
  \/ \E k \in ImageKeys, t \in MaintTtls : ImageSet(k, <<"p", "n", "g">>, "image/png", t)
  \/ \E k \in ImageKeys : ImageGet(k)
  \/ ImageClear
  \/ Tick

SpecStore == InitStore /\ [][NextStore]_vars

(***************************************************************************)
(* C1 - C8: the Domain Service and the Background Warmer.                  *)
(***************************************************************************)
\* A live read: getChapter(id).  A pre-caching read: getChapter(id, ttl).
LiveChapter(t) == t.op = "getChapter" /\ ~t.hasTtl
PreChapter(t) == t.op = "getChapter" /\ t.hasTtl

\* The call in slot i returns in this step.
Returns(i) == tasks[i].pc # "done" /\ tasks'[i].pc = "done"

\* C1: a getChapter call made with a TTL never attaches the stored cookies:
\* its fast-path request carries no Cookie header and its fallback page is
\* opened in the anonymous context, which holds no cookie; a getChapter call
\* made without a TTL sends the Cookie header on its fast-path request and
\* opens its fallback page in the authenticated context.
C1_ChapterCookiesByMode ==
  \A i \in Slots :
    LET t == tasks[i]
    IN  /\ PreChapter(t) =>
              /\ ~t.cookieSent
              /\ t.ctxUsed \in {"none", "anon"}
              /\ t.ctxCookies = {}
              /\ \A p \in OwnPages(i) : p.ctx = "anon"
        /\ (LiveChapter(t) /\ t.httpCalls > 0) =>
              /\ t.cookieSent
              /\ t.ctxUsed \in {"none", "auth"}
              /\ \A p \in OwnPages(i) : p.ctx = "auth"

\* C1 witness: with the session cookie stored, the pre-caching read that a
\* GET /api/chapter/<id> request started has sent its fast-path request
\* without Cookie header and has its fallback page open in the anonymous
\* context.
C1_Witness ==
  \E i \in Slots :
    /\ hasSessionCookies
    /\ PreChapter(tasks[i]) /\ tasks[i].caller = "api" /\ tasks[i].pc = "nav"
    /\ tasks[i].httpCalls = 1 /\ ~tasks[i].cookieSent
    /\ \E p \in OwnPages(i) : p.ctx = "anon" /\ p.cx = fleet.anonContext

\* C2 as stated: every fiction-detail fetch and every chapter fetch of a
\* follows-warming cycle is anonymous: no Cookie header on the fast-path
\* request, the anonymous context on fallback.
C2_WarmingIsAnonymous ==
  \A k \in Slots :
    (cycles[k].job = "follows" /\ tasks[k].op \in {"getFiction", "getChapter"}) =>
       /\ tasks[k].useAnon
       /\ ~tasks[k].cookieSent
       /\ tasks[k].ctxUsed \in {"none", "anon"}

\* C3 as stated: at most one follows-warming cycle (warmFollowsCache) is in
\* progress at any time.
C3_OneFollowsCycle ==
  Cardinality({k \in Slots : cycles[k].job = "follows"}) <= 1

\* C4 as stated: every open automation page is held by a call that is still
\* in progress: once the operation that obtained it has returned or thrown,
\* the page is closed.
C4_PagesClosedOnReturn ==
  \A p \in pages :
    /\ p.owner \in Slots
    /\ tasks[p.owner].pc \in {"route", "nav", "wait", "navInfo", "fictionInfo", "evaluate",
                              "close"}

\* C5 as stated: when a live read getChapter(id) returns, the entries
\* `follows` and `fiction:<f>`, f the fiction owning chapter id, are gone.
C5_LiveReadInvalidates ==
  [][\A i \in Slots :
       (Returns(i) /\ LiveChapter(tasks'[i])) =>
          /\ RowsOf(cache', FollowsKey) = {}
          /\ RowsOf(cache', FictionKey(OwnerOf(tasks'[i].arg))) = {}]_vars

NonEmptyResult(t) ==
  CASE t.op \in {"getFollows", "getToplist"} -> Len(t.result) > 0
    [] t.op = "getFiction" -> t.result.title \/ Len(t.result.chapters) > 0
    [] t.op = "getChapter" -> t.result.content # 0
    [] OTHER -> TRUE

\* C7 as stated: an operation writes its cache entry only when extraction
\* produced a non-empty result.
C7_WritesOnlyNonEmpty ==
  \A i \in Slots :
    (tasks[i].pc = "done" /\ tasks[i].wrote # {}) => NonEmptyResult(tasks[i])

\* C8: a getFollows, getToplist, getFiction or pre-caching getChapter call
\* that finds a valid entry under its key when it starts returns at once the
\* deserialized entry, and has issued no HTTP request, opened no page and
\* written nothing to the cache.
C8_CacheHitShortCircuits ==
  [][\A i \in Slots :
       LET t == tasks'[i]
           entry == getCacheAt(cache, clock, CacheKeyOf(t.op, t.arg))
       IN  /\ (tasks[i].pc = "idle" /\ t.pc # "idle" /\ ReadsCache(t) /\ entry # Null) =>
                 /\ t.pc = "done" /\ t.hit
                 /\ t.result = JSONparse(entry)
                 /\ cache' = cache /\ pages' = pages
           /\ t.hit =>
                 /\ t.pc = "done" /\ t.httpCalls = 0 /\ t.ctxUsed = "none"
                 /\ t.wrote = {} /\ OwnPages(i) = {}]_vars

\* C8 witness: with time passed since the entry was written, the pre-caching
\* getChapter of a GET /api/chapter/<id> request has returned the chapter its
\* still valid entry holds.
C8_Witness ==
  \E i \in Slots :
    /\ PreChapter(tasks[i]) /\ tasks[i].hit /\ tasks[i].cachedAtStart
    /\ tasks[i].caller = "api"
    /\ clock > 0
    /\ JSONstringify(tasks[i].result) = getCache(ChapterKey(tasks[i].arg))

(***************************************************************************)
(* C9, C10: the Cache Store's TTL and upsert contracts.                    *)
(***************************************************************************)
\* Ticks elapsed since the last put of k.
Elapsed(k) == clock - lastPut[k].at

\* C9 as stated: after put(k, v, ttl) with no later write to k, get(k) is v
\* and isPresent(k) is true at every time before ttl seconds have elapsed
\* since the put, and get(k) is absent and isPresent(k) false afterwards.
C9_AsStated ==
  \A k \in StoreKeys : lastPut[k].live =>
    IF Elapsed(k) < lastPut[k].ttl * TicksPerSecond
    THEN getCache(k) = lastPut[k].content /\ isCached(k)
    ELSE getCache(k) = Null /\ ~isCached(k)

\* C9 (amended): the entry put at time T with TTL ttl is returned exactly
\* while floor(now) < floor(T) + ttl in whole epoch seconds: at every time up
\* to ttl - 1 seconds after the put it is present, once ttl seconds have
\* elapsed it is absent, and in between it may already have expired.
C9_TtlInWholeSeconds ==
  \A k \in StoreKeys : lastPut[k].live =>
    LET valid == NowSeconds(clock) < NowSeconds(lastPut[k].at) + lastPut[k].ttl
    IN  /\ valid => getCache(k) = lastPut[k].content /\ isCached(k)
        /\ ~valid => getCache(k) = Null /\ ~isCached(k)
        /\ Elapsed(k) >= lastPut[k].ttl * TicksPerSecond => ~valid
        /\ Elapsed(k) <= (lastPut[k].ttl - 1) * TicksPerSecond => valid

\* C9 witness: an entry that was readable after its put has since expired,
\* its row still stored.
C9_Witness ==
  \E k \in StoreKeys :
    /\ lastPut[k].live /\ lastPut[k].ttl > 0
    /\ RowsOf(cache, k) # {}
    /\ Elapsed(k) >= lastPut[k].ttl * TicksPerSecond
    /\ lastCall.op = "getCache" /\ lastCall.url = k /\ lastCall.result = Null

\* C10: put(k, v1, t1) then put(k, v2, t2) leaves exactly one row for k,
\* holding v2 and expiring at the second put's time plus t2, and leaves every
\* other row as it was.
C10_IdempotentUpsert ==
  [][(lastCall'.op = "setCache" /\ lastPut[lastCall'.url].live) =>
       LET k == lastCall'.url
       IN  /\ RowsOf(cache', k) =
                {[url |-> k, content |-> lastPut'[k].content,
                  expires_at |-> NowSeconds(clock') + lastPut'[k].ttl]}
           /\ cache' \ RowsOf(cache', k) = cache \ RowsOf(cache, k)]_vars

\* C10 witness: a second put replaced a row of another value whose expiry
\* was later than the new one, with another key's row present.
C10_Witness ==
  /\ lastCall.op = "setCache"
  /\ \E old \in lastCall.before :
        /\ old.content # lastPut[lastCall.url].content
        /\ old.expires_at > NowSeconds(clock) + lastPut[lastCall.url].ttl
  /\ \E r \in cache : r.url # lastCall.url

(***************************************************************************)
(* C11 - C13: purge by type, purge of the expired, reads leave the store.  *)
(***************************************************************************)
\* s begins, compared literally, with prefix.
StartsWith(s, prefix) ==
  Len(s) >= Len(prefix) /\ SubSeq(s, 1, Len(prefix)) = prefix

Expired(rows, t) == {r \in rows : r.expires_at <= NowSeconds(t)}

\* C11 as stated: clearCacheByType(t) deletes exactly the rows of the text
\* table whose key begins, compared literally, with t followed by ':',
\* leaves every other text row and every image row as it was, and returns
\* the number of rows deleted.
C11_PurgeByLiteralPrefix ==
  [][lastCall'.op = "clearCacheByType" =>
       LET t == lastCall'.url
       IN  /\ cache \ cache' = {r \in cache : StartsWith(r.url, t \o <<":">>)}
           /\ cache' \subseteq cache
           /\ imageCache' = imageCache
           /\ lastCall'.result = <<Cardinality(cache \ cache')>>]_vars

\* C12: clearExpiredCache() deletes from both tables exactly the rows whose
\* expiry has passed and no valid row, so for every key getCache, isCached
\* and getImageCache answer the same just before and just after it.
C12_PurgeExpiredKeepsValid ==
  [][lastCall'.op = "clearExpiredCache" =>
       /\ cache \ cache' = Expired(cache, clock) /\ cache' \subseteq cache
       /\ imageCache \ imageCache' = Expired(imageCache, clock)
       /\ imageCache' \subseteq imageCache
       /\ \A k \in TextKeys \cup ImageKeys :
             /\ getCacheAt(cache', clock', k) = getCacheAt(cache, clock, k)
             /\ isCachedAt(cache', clock', k) = isCachedAt(cache, clock, k)
             /\ getImageCacheAt(imageCache', clock', k)
                  = getImageCacheAt(imageCache, clock, k)]_vars

\* C12 witness: a purge has just deleted a text row and the image row, and
\* a valid text row is still stored and readable.
C12_Witness ==
  /\ lastCall.op = "clearExpiredCache"
  /\ lastCall.result[1] >= 1 /\ lastCall.result[2] = 1
  /\ \E k \in TextKeys : getCache(k) = MaintContent

\* C13: getCache and isCached never modify the store: an expired row stays
\* stored, and getCacheStats counts it as expired, until clearExpiredCache,
\* clearCacheByType, clearCache or a setCache of its key removes or replaces
\* it.
C13_ReadsLeaveTheStore ==
  [][/\ lastCall'.op \in {"getCache", "isCached", "getCacheStats", "getImageCache"} =>
          cache' = cache /\ imageCache' = imageCache
     /\ \A r \in Expired(cache, clock) :
          r \notin cache' =>
            \/ lastCall'.op \in {"clearExpiredCache", "clearCacheByType", "clearCache"}
            \/ lastCall'.op = "setCache" /\ lastCall'.url = r.url
     /\ lastCall'.op = "getCacheStats" =>
          lastCall'.result.expiredCount = Cardinality(Expired(cache', clock'))]_vars

\* C13 witness: isCached has just answered false for a key whose expired row
\* is still stored and counted as expired, beside a valid row.
C13_Witness ==
  /\ lastCall.op = "isCached" /\ lastCall.result = <<FALSE>>
  /\ RowsOf(cache, lastCall.url) # {}
  /\ getCacheStats(cache, imageCache, clock).expiredCount = 1
  /\ \E k \in TextKeys : isCached(k)

(***************************************************************************)
(* C14 - C18: the Retrieval Engine (getPage).                              *)
(***************************************************************************)
\* The context getPage selects for a call.
ModeContext(t) == IF t.useAnon THEN "anon" ELSE "auth"

\* C14: in both retrieval modes, if the fast-path GET settles with a success
\* status and a body without challenge marker, getPage returns that body
\* and no page handle, and in that step no browser is launched, no context
\* created and no page opened: the call goes on with the body (to its end,
\* or to the redirect resolution of getFollows).
C14_FastPathSkipsBrowser ==
  [][\A i \in Slots : \A response \in Responses(tasks[i].op, tasks[i].arg) :
       (/\ ~response.rejected /\ response.ok /\ ~challengeDetected(response.html)
        /\ (HttpOk(i, response) \/ Fallback(i, response))) =>
          /\ tasks'[i] = finish(tasks[i], response.html, FALSE, cache, clock, timers,
                               cookies).task
          /\ tasks'[i].pc \in {"done", "resolve"}
          /\ ~tasks'[i].page /\ tasks'[i].ctxUsed = "none"
          /\ fleet' = fleet
          /\ pages' = pages]_vars

\* C14 witness: a live read (authenticated) and the pre-caching read it
\* scheduled (anonymous) have both returned a chapter from the fast path
\* alone, and no page is open.
C14_Witness ==
  /\ LiveChapter(tasks[RouteSlot]) /\ PreChapter(tasks[TimerSlot])
  /\ \A i \in Slots :
        /\ tasks[i].pc = "done" /\ ~tasks[i].hit /\ tasks[i].httpCalls = 1
        /\ tasks[i].ctxUsed = "none" /\ tasks[i].result.content # 0
  /\ tasks[RouteSlot].cookieSent /\ ~tasks[TimerSlot].cookieSent
  /\ pages = {}

\* C15 as stated: whenever the fast-path body contains "challenge-running",
\* getPage opens a page in the context selected by the mode, and makes at
\* least one navigation attempt before it returns or raises.
C15_ChallengeOpensPage ==
  \A i \in Slots :
    (tasks[i].challenged
     /\ tasks[i].pc \in {"wait", "navInfo", "fictionInfo", "evaluate", "close", "resolve",
                         "done", "failed"}) =>
       /\ tasks[i].ctxUsed = ModeContext(tasks[i])
       /\ tasks[i].navigated

\* C16 as stated, for the attempts that do not fail outright for another
\* reason than a timeout: a call in the fallback path raises only when all 3
\* attempts were still challenge-blocked.
C16_RaisesOnlyWhenExhausted ==
  [][\A i \in Slots :
       (tasks[i].pc = "nav" /\ tasks'[i].error \notin {"none", "RetrievalFailed"}) =>
          /\ tasks'[i].error = "ChallengeBlocked"
          /\ tasks[i].attempts = maxAttempts - 1]_vars

\* C17 as stated: no call waits on the fast path forever: a call whose
\* fast-path request is outstanding eventually leaves it (for the fallback
\* path, or with the body).
C17_FastPathGivesUp ==
  \A i \in Slots : (tasks[i].pc = "http") ~> (tasks[i].pc # "http")

\* C18 as stated: if a navigation attempt times out while fewer than 3
\* attempts have been made, getPage makes another attempt.
C18_TimeoutRetries ==
  [][\A i \in Slots :
       (tasks[i].attempts + 1 < maxAttempts /\ NavThrows(i, "NavigationTimeout")) =>
          /\ tasks'[i].pc = "nav"
          /\ tasks'[i].attempts = tasks[i].attempts + 1]_vars

(***************************************************************************)
(* C19, C20: the redirect resolution of getFollows.                        *)
(***************************************************************************)
\* C19: the redirect resolution of getFollows sends no cookie, opens no page
\* and changes no context, and deletes or rewrites no entry of the Cache
\* Store: in the step that resolves, every row under another key than
\* `follows` stays as it is, `follows` is not removed, and the only write is
\* getFollows' own write of the list it returns.
C19_ResolutionTouchesNothing ==
  [][\A i \in Slots :
       (tasks[i].pc = "resolve" /\ tasks'[i].pc # "resolve") =>
          /\ ~tasks'[i].headCookie
          /\ tasks'[i].cookieSent = tasks[i].cookieSent
          /\ tasks'[i].ctxUsed = tasks[i].ctxUsed /\ tasks'[i].deleted = {}
          /\ pages' = pages
          /\ fleet' = fleet
          /\ {r \in cache' : r.url # FollowsKey} = {r \in cache : r.url # FollowsKey}
          /\ RowsOf(cache, FollowsKey) # {} => RowsOf(cache', FollowsKey) # {}
          /\ RowsOf(cache', FollowsKey) # RowsOf(cache, FollowsKey) =>
                getCacheAt(cache', clock', FollowsKey) = JSONstringify(tasks'[i].result)]_vars

\* C19 witness: getFollows has returned a follow whose redirect it resolved
\* by a HEAD request, and the rows of `fiction:1` and of the chapter written
\* before are still stored.
C19_Witness ==
  \E i \in Slots :
    /\ tasks[i].op = "getFollows" /\ tasks[i].pc = "done" /\ ~tasks[i].hit
    /\ tasks[i].httpCalls = 2
    /\ Len(tasks[i].result) = 1 /\ tasks[i].result[1].nextChapterId = NumChapters
    /\ RowsOf(cache, FictionKey(1)) # {} /\ RowsOf(cache, ChapterKey(NumChapters)) # {}

\* The follows of a list whose Read button was a /chapter/next/ redirect:
\* those with a last read chapter.
Redirected(list) == {k \in 1..Len(list) : list[k].lastReadChapterId # 0}

\* C20 as stated: every follow that getFollows returns or caches and whose
\* Read button is a redirect carries a concrete nextChapterId.
C20_FollowsCarryNextChapter ==
  /\ \A i \in Slots :
        (tasks[i].op = "getFollows" /\ tasks[i].pc = "done") =>
           \A k \in Redirected(tasks[i].result) : tasks[i].result[k].nextChapterId # 0
  /\ RowsOf(cache, FollowsKey) # {} =>
        \A r \in RowsOf(cache, FollowsKey) :
          \A k \in Redirected(JSONparse(r.content)) :
            JSONparse(r.content)[k].nextChapterId # 0

(***************************************************************************)
(* C21 - C24: the Background Warmer.                                       *)
(***************************************************************************)
\* The run in slot k is inside warmToplistsCache and moves on in this step.
ToplistsMoves(k) == cycles[k].job = "toplists" /\ cycles'[k] # cycles[k]

\* The position its loop goes on from, and the position it stops at in this
\* step (Len(TOPLISTS) + 1: the loop is over).
ScanFrom(k) == IF cycles[k].pc = "import" THEN 1 ELSE cycles[k].idx + 1
ScanTo(k) ==
  IF cycles'[k].job = "toplists" /\ cycles'[k].pc = "toplist" THEN cycles'[k].idx
  ELSE Len(cycles[k].list) + 1

\* The skip half of C21: the toplists a run passes over are those holding a
\* valid entry; for them nothing is written and no call is made (the call the
\* step begins, if any, is for the first toplist without a valid entry, later
\* in TOPLISTS than any the run has called for), and each adds one to
\* skipped and nothing to cached.
ToplistsSkip(k) ==
  LET c == cycles[k]
      from == ScanFrom(k)
      to == ScanTo(k)
      scanned == toplistsScan(c, from, cache, clock)
  IN  (c.pc # "toplist" \/ tasks[k].pc = "failed") =>
        /\ to >= from
        /\ \A m \in from..Len(c.list) :
             m < to <=> \A n \in from..m : isCached(ToplistKey(c.list[n]))
        /\ cache' = cache /\ pages' = pages
        /\ scanned.idx = to
        /\ scanned.skipped = c.skipped + (to - from) /\ scanned.cached = c.cached
        /\ IF to <= Len(c.list)
           THEN /\ tasks'[k].op = "getToplist" /\ tasks'[k].arg = c.list[to]
                /\ ~tasks'[k].hit
                /\ cycles'[k].skipped = scanned.skipped
                /\ cycles'[k].cached = scanned.cached
           ELSE tasks'[k] = IdleTask

\* C21 as stated: a toplist holding a valid entry when the run reaches it
\* costs no retrieval and no cache write and adds one to skipped only; a
\* toplist without one is fetched once and adds one to cached only.
C21_SkipOrFetchOnce ==
  [][\A k \in Slots :
       ToplistsMoves(k) =>
         /\ ToplistsSkip(k)
         /\ (cycles[k].pc = "toplist" /\ cycles'[k].job = "toplists"
             /\ cycles'[k].pc \in {"delay", "toplist"}) =>
               /\ cycles'[k].cached = cycles[k].cached + 1
               /\ cycles'[k].pc = "delay" => cycles'[k].skipped = cycles[k].skipped]_vars

\* C21: a toplist holding a valid entry when the run reaches it costs no
\* retrieval and no cache write and adds one to skipped only; a toplist
\* without one gets one getToplist call, which adds one to cached (and nothing
\* to skipped) when it returns and nothing to either counter when it throws.
C21_SkipOrFetchCounted ==
  [][\A k \in Slots :
       ToplistsMoves(k) =>
         /\ ToplistsSkip(k)
         /\ (cycles[k].pc = "toplist" /\ cycles'[k].job = "toplists"
             /\ cycles'[k].pc = "delay") =>
               /\ tasks[k].pc = "done"
               /\ cycles'[k].cached = cycles[k].cached + 1
               /\ cycles'[k].skipped = cycles[k].skipped
               /\ cycles'[k].idx = cycles[k].idx
         /\ (cycles[k].pc = "toplist" /\ cycles'[k].job = "toplists"
             /\ cycles'[k].pc = "toplist") =>
               /\ tasks[k].pc = "failed"
               /\ cycles'[k].cached = cycles[k].cached
               /\ cycles'[k].idx > cycles[k].idx]_vars

\* C21 witness: a run has passed over the first toplist, which holds a valid
\* entry, and has fetched the second, whose row had expired (the list came
\* back empty, so the expired row is still the one stored): skipped 1,
\* cached 1.
C21_Witness ==
  \E k \in Slots :
    /\ cycles[k].job = "toplists" /\ cycles[k].pc = "delay" /\ cycles[k].idx = 2
    /\ cycles[k].skipped = 1 /\ cycles[k].cached = 1
    /\ isCached(ToplistKey(cycles[k].list[1]))
    /\ RowsOf(cache, ToplistKey(cycles[k].list[2])) # {}
    /\ ~isCached(ToplistKey(cycles[k].list[2]))

\* The run in slot k takes the fiction that getFiction returned, with
\* chapters, for the follow it is at.
FictionTaken(k) ==
  /\ cycles[k].pc = "fiction" /\ tasks[k].pc = "done"
  /\ cycles'[k] # cycles[k]
  /\ Len(tasks[k].result.chapters) > 0

\* The chapter right after `id` in the chapter list, 0 if there is none.
SuccessorOf(chapters, id) ==
  LET at == {j \in 1..Len(chapters) : chapters[j].id = id}
      first == CHOOSE j \in at : \A m \in at : j <= m
  IN  IF at = {} THEN 0
      ELSE IF first < Len(chapters) THEN chapters[first + 1].id ELSE 0

\* The step calls getChapter(id, ttl) for the run in slot k, in pre-caching
\* mode, exactly when id is a chapter (not 0) without a valid entry, and
\* else goes on to the delay with no call.
PreCachesOnly(k, id) ==
  IF id # 0 /\ ~isCached(ChapterKey(id))
  THEN /\ tasks'[k].op = "getChapter" /\ tasks'[k].arg = id
       /\ tasks'[k].hasTtl /\ tasks'[k].useAnon /\ ~tasks'[k].hit
       /\ cycles'[k].pc = "chapter"
  ELSE /\ tasks'[k] = IdleTask
       /\ cycles'[k].pc = "delay"

\* C22 as stated: the chapter follows warming pre-caches for a fiction is the
\* continue-pointer when present, otherwise the chapter right after the
\* follow's last-read chapter, otherwise the first chapter of the list; and
\* it is pre-cached only when its entry is not already valid.
C22_StrictPrecedence ==
  [][\A k \in Slots :
       FictionTaken(k) =>
         LET details == tasks[k].result
             follow == cycles[k].list[cycles[k].idx]
             after == SuccessorOf(details.chapters, follow.lastReadChapterId)
         IN  PreCachesOnly(k,
               IF details.continueChapterId # 0 THEN details.continueChapterId
               ELSE IF follow.lastReadChapterId # 0 /\ after # 0 THEN after
               ELSE details.chapters[1].id)]_vars

\* C22: the chapter follows warming pre-caches for a fiction is the
\* continue-pointer when present; otherwise, when the follow has a last-read
\* chapter, the chapter right after it in the chapter list, and none when it
\* is the last of the list or not in it; otherwise (never read) the first
\* chapter of the list; and it is pre-cached only when its entry is not
\* already valid.
C22_PrecedenceByLastRead ==
  [][\A k \in Slots :
       FictionTaken(k) =>
         LET details == tasks[k].result
             follow == cycles[k].list[cycles[k].idx]
             after == SuccessorOf(details.chapters, follow.lastReadChapterId)
         IN  PreCachesOnly(k,
               IF details.continueChapterId # 0 THEN details.continueChapterId
               ELSE IF follow.lastReadChapterId # 0 THEN after
               ELSE details.chapters[1].id)]_vars

\* C22 witness: for a follow last read at chapter 1, whose fiction has a
\* continue-pointer to the last chapter, the run pre-caches the last chapter;
\* it was not cached.
C22_Witness ==
  \E k \in Slots :
    /\ cycles[k].job = "follows" /\ cycles[k].pc = "chapter"
    /\ cycles[k].list[cycles[k].idx].lastReadChapterId = 1
    /\ cycles[k].next = NumChapters
    /\ PreChapter(tasks[k]) /\ tasks[k].arg = NumChapters /\ tasks[k].pc = "done"
    /\ tasks[k].wrote = {ChapterKey(NumChapters)}

\* The call the run in slot k awaited for an item has thrown, and the run
\* takes the error in this step.
ItemFails(k) ==
  /\ cycles[k].pc \in {"toplist", "fiction", "chapter"}
  /\ tasks[k].pc = "failed"
  /\ cycles'[k] # cycles[k]

\* The items after the one the run in slot k is at that warming does not
\* skip: the toplists without a valid entry, the follows whose fiction has
\* none.
ItemsLeft(k) ==
  LET c == cycles[k]
  IN  {m \in (c.idx + 1)..Len(c.list) :
         IF c.job = "toplists" THEN ~isCached(ToplistKey(c.list[m]))
         ELSE ~isCached(FictionKey(c.list[m].id))}

\* C23: when the call made for one item of a warming run throws, the run
\* goes on with the first later item that is not skipped (getToplist for a
\* toplist, getFiction for a follow) or, when none is left, ends as after its
\* last item: warmFollowsCache still follows warmToplistsCache in a triggered
\* run; when getFollows itself throws the run ends; and in neither case does
\* the step disarm an interval timer or clear the running flag.
C23_ItemErrorsContained ==
  [][\A k \in Slots :
       /\ ItemFails(k) =>
            LET c == cycles[k]
                left == ItemsLeft(k)
                m == CHOOSE a \in left : \A b \in left : a <= b
            IN  /\ jobs' = jobs
                /\ IF left # {}
                   THEN /\ cycles'[k].job = c.job /\ cycles'[k].idx = m
                        /\ cycles'[k].list = c.list
                        /\ tasks'[k].caller = "job"
                        /\ IF c.job = "toplists"
                           THEN /\ tasks'[k].op = "getToplist"
                                /\ tasks'[k].arg = c.list[m]
                           ELSE /\ tasks'[k].op = "getFiction"
                                /\ tasks'[k].arg = c.list[m].id
                   ELSE /\ tasks'[k] = IdleTask
                        /\ IF c.job = "toplists" /\ c.thenFollows
                           THEN cycles'[k].job = "follows" /\ cycles'[k].pc = "import"
                           ELSE cycles'[k] = IdleCycle
       /\ (cycles[k].pc = "follows" /\ tasks[k].pc = "failed"
           /\ cycles'[k] # cycles[k]) =>
            /\ jobs' = jobs
            /\ cycles'[k] = IdleCycle /\ tasks'[k] = IdleTask]_vars

\* C23 witness: the run is fetching the fiction of the second follow although
\* the fiction of the first is still not cached (its getFiction or its
\* chapter pre-cache threw), with both interval timers armed.
C23_Witness ==
  \E k \in Slots :
    /\ cycles[k].job = "follows" /\ cycles[k].pc = "fiction" /\ cycles[k].idx = 2
    /\ ~isCached(FictionKey(cycles[k].list[1].id))
    /\ tasks[k].op = "getFiction" /\ tasks[k].arg = cycles[k].list[2].id
    /\ jobs.followsJobInterval /\ jobs.toplistsJobInterval

\* C24 as stated: while the jobs are stopped (stopJobs has returned, or
\* startJobs was never called) no timer of the scheduler starts a warming
\* run, whatever the time since the preceding startJobs; and stopJobs leaves
\* a state that a second stopJobs does not change, the initial state included.
C24_StopHaltsScheduledRuns ==
  [][/\ ~jobs.jobsRunning =>
          ~InitialRunFires /\ ~FollowsIntervalFires /\ ~ToplistsIntervalFires
     /\ StopJobs =>
          /\ stopJobs(jobs') = jobs'
          /\ (jobs.initialRuns = 0 /\ jobs.runs = 0 /\ ~jobs.jobsRunning) => jobs' = jobs]_vars

(***************************************************************************)
(* C25: the read flags of a chapter list.                                  *)
(***************************************************************************)
\* The positions of `chapters` flagged read.
FlaggedRead(chapters) == {j \in 1..Len(chapters) : chapters[j].isRead}

\* What C25 requires of the chapter list `chapters` extracted from document
\* c: with a reading-position marker in the markup, the last at row i,
\* exactly the chapters up to i are flagged; otherwise, with a
\* continue-pointer that is the chapter at position j, exactly those before
\* j; otherwise none.
ReadFlagsAsRequired(chapters, c) ==
  LET at == {j \in 1..Len(chapters) : chapters[j].id = c.continueId}
  IN  IF c.progress # {}
      THEN \E i \in c.progress :
             /\ \A m \in c.progress : m <= i
             /\ FlaggedRead(chapters) = 1..i
      ELSE IF c.continueId # 0 /\ at # {}
      THEN \E j \in at : FlaggedRead(chapters) = 1..(j - 1)
      ELSE FlaggedRead(chapters) = {}

\* C25 as stated: the chapter list a getFiction call extracts and returns,
\* on the HTTP path and on the browser path, is flagged as required.
C25_ReadFlags ==
  [][\A i \in Slots :
       /\ \A response \in Responses(tasks[i].op, tasks[i].arg) :
            (tasks[i].op = "getFiction" /\ HttpOk(i, response)) =>
               ReadFlagsAsRequired(tasks'[i].result.chapters, response.html)
       /\ (tasks[i].op = "getFiction" /\ PageCloseSettles(i)) =>
            ReadFlagsAsRequired(tasks'[i].result.chapters, tasks[i].content)]_vars

(***************************************************************************)
(* C26, C27: bookmark mutations and calls without credentials.             *)
(***************************************************************************)
\* The rows of `rows` under other keys than those of `keys`.
Without(rows, keys) == {r \in rows : r.url \notin keys}

\* C26: when the POST of setBookmark settles with a status that is ok or a
\* 302, the call returns success and the cache loses `fiction:<id>` and, only
\* for type follow, `follows`, and nothing else; when it settles with another
\* status or rejects, the call returns a failure value (it does not throw)
\* and the cache is unchanged; a favorite or read-later mutation never
\* removes `follows`.
C26_BookmarkInvalidation ==
  [][\A i \in Slots : \A response \in BookmarkResponses :
       BookmarkSettles(i, response) =>
         LET t == tasks[i]
             succeeds == ~response.rejected
                         /\ (response.status \in 200..299 \/ response.status = 302)
         IN  /\ tasks'[i].pc = "done"
             /\ tasks'[i].result.success = succeeds
             /\ succeeds =>
                  cache' = Without(cache, {FictionKey(t.arg)} \cup
                                          (IF t.type = "follow" THEN {FollowsKey} ELSE {}))
             /\ ~succeeds => cache' = cache
             /\ t.type # "follow" => RowsOf(cache', FollowsKey) = RowsOf(cache, FollowsKey)]_vars

\* C26 witness: a favorite mutation has succeeded on a cache that held the
\* fiction and the follows list: the fiction is gone, the follows list is not,
\* while the pre-caching read that a GET /api/chapter/<id> request started
\* has stored its chapter.
C26_Witness ==
  \E i \in Slots : \E j \in Slots \ {i} :
    /\ tasks[i].op = "setBookmark" /\ tasks[i].type = "favorite"
    /\ tasks[i].pc = "done" /\ tasks[i].result.success
    /\ tasks[i].deleted = {FictionKey(tasks[i].arg)}
    /\ RowsOf(cache, FictionKey(tasks[i].arg)) = {}
    /\ RowsOf(cache, FollowsKey) # {} /\ RowsOf(cache, ChapterKey(NumChapters)) # {}
    /\ PreChapter(tasks[j]) /\ tasks[j].caller = "api" /\ tasks[j].pc = "done"
    /\ tasks[j].wrote = {ChapterKey(1)}
    /\ RowsOf(cache, ChapterKey(1)) # {}

\* The operations that act with the user's credentials.
Credentialed(t) ==
  \/ t.op \in {"getFollows", "getHistory", "getToplist", "getFiction",
               "searchFictions", "setBookmark"}
  \/ LiveChapter(t)

\* C27 as stated: a call of an operation that acts with the user's
\* credentials, made when no session cookie is stored and not served from
\* the cache, is rejected at once: no HTTP request has been sent, no page
\* opened, the cache is unchanged.
C27_NoCredentialsNoRequest ==
  [][\A i \in Slots :
       (/\ tasks[i].pc \in {"idle", "form"} /\ tasks'[i].pc \notin {"idle", "form"}
        /\ Credentialed(tasks'[i]) /\ ~tasks'[i].useAnon
        /\ ~hasSessionCookies
        /\ ~tasks'[i].hit) =>
          /\ tasks'[i].pc = "failed" /\ tasks'[i].error = "NotConfigured"
          /\ tasks'[i].httpCalls = 0
          /\ pages' = pages /\ cache' = cache]_vars

\* The TTLs a caller of getChapter may supply.
SuppliedTtls == {CACHE_TTL_FOLLOWS, CACHE_TTL_FICTION, CACHE_TTL_CHAPTER}

\* The calls of the operations that cache: getFollows(), getToplist(t) and
\* getFiction(id) with the default of their ttl parameter, getChapter(id),
\* and getChapter(id, ttl) with any of the TTLs above.
CachingCalls ==
  {getFollows(CACHE_TTL_FOLLOWS, "route")}
  \cup {getToplist(Toplists[j], CACHE_TTL_TOPLIST, "route") : j \in 1..NumToplists}
  \cup {getFiction(f, CACHE_TTL_FICTION, "route") : f \in Fictions}
  \cup {getChapterLive(c, "route") : c \in Chapters}
  \cup {getChapterPre(c, ttl, "api") : c \in Chapters, ttl \in SuppliedTtls}

\* The operations that cache, called with these arguments, on both paths of
\* getPage, at any time.
NextTtl ==
  \/ calls < MaxCalls /\ \E call \in CachingCalls : BeginCall(FreeRun, call)
  \/ \E i \in Slots : FetchStep(i)
  \/ \E i \in Slots : FictionStep(i)
  \/ \E i \in Slots : Reap(i)
  \/ \E p \in Procs : LaunchStep(p)
  \/ \E id \in BagToSet(timers) : TimerFires(FreeRun, id)
  \/ \E s \in JumpSeconds : ClockJump(s)

SpecTtl == Init /\ [][NextTtl]_vars

\* C28: whenever a call of the Domain Service made with the default of its
\* ttl parameter writes a cache entry, the row of that key expires at the
\* second of the write plus the TTL of its resource type: 1200 s for
\* follows, 21600 s for a toplist, 3600 s for a fiction; a chapter row
\* expires 2592000 s after the write on a live read and on a pre-caching
\* read, on the fast path and on the browser path, whatever TTL the caller
\* passed.
C28_TtlByResourceType ==
  [][\A i \in Slots : \A k \in tasks'[i].wrote \ tasks[i].wrote :
       LET t == tasks'[i]
           expiresAfter(ttl) ==
             /\ RowsOf(cache', k) # {}
             /\ \A r \in RowsOf(cache', k) : r.expires_at = NowSeconds(clock) + ttl
       IN  /\ t.op \in {"getFollows", "getToplist", "getFiction", "getChapter"}
           /\ k = CacheKeyOf(t.op, t.arg)
           /\ (t.op = "getFollows" /\ t.ttl = CACHE_TTL_FOLLOWS) => expiresAfter(1200)
           /\ (t.op = "getToplist" /\ t.ttl = CACHE_TTL_TOPLIST) => expiresAfter(21600)
           /\ (t.op = "getFiction" /\ t.ttl = CACHE_TTL_FICTION) => expiresAfter(3600)
           /\ t.op = "getChapter" => expiresAfter(2592000)]_vars

\* C28 witness: some time after the start, a getChapter call that was given
\* a TTL of 1200 s has stored its chapter from a page of the browser path, and
\* the row expires 2592000 s after the write.
C28_Witness ==
  \E i \in Slots :
    /\ PreChapter(tasks[i]) /\ tasks[i].ttl = CACHE_TTL_FOLLOWS
    /\ tasks[i].pc = "done" /\ tasks[i].ctxUsed = "anon"
    /\ ChapterKey(tasks[i].arg) \in tasks[i].wrote
    /\ clock > 0
    /\ \E r \in RowsOf(cache, ChapterKey(tasks[i].arg)) :
         r.expires_at = NowSeconds(clock) + CACHE_TTL_CHAPTER

\* C29: a live read returns in the step that arms the timer of its
\* pre-cache: the bag of timers gains the next chapter id (nothing when there is
\* none) and no other call has moved; the call the timer starts is a
\* pre-caching read of that id; no step of a pre-caching read arms a timer,
\* so a live read leads to at most one more retrieval; when the call the
\* timer started fails, no other call changes.
C29_PreCacheDetached ==
  [][\A i \in Slots :
       LET t == tasks[i]
           u == tasks'[i]
           others == \A j \in Slots \ {i} : tasks'[j] = tasks[j]
       IN  /\ (LiveChapter(t) /\ t.pc \notin {"idle", "done", "failed"} /\ u.pc = "done") =>
                 /\ timers' = timers (+) (IF u.result.nextChapterId # 0
                                          THEN SetToBag({u.result.nextChapterId})
                                          ELSE EmptyBag)
                 /\ others
           /\ \A id \in Chapters : TimerFires(i, id) => PreChapter(u) /\ u.arg = id
           /\ (PreChapter(u) /\ u # t) => timers' \sqsubseteq timers
           /\ (t.caller = "timer" /\ t.pc # "failed" /\ u.pc = "failed") => others]_vars

\* C29 witness: the live read has returned its chapter and is still held by
\* its caller, and the pre-cache its timer started has failed.
C29_Witness ==
  /\ LiveChapter(tasks[RouteSlot]) /\ tasks[RouteSlot].pc = "done"
  /\ tasks[RouteSlot].result.nextChapterId # 0
  /\ tasks[TimerSlot].caller = "timer" /\ tasks[TimerSlot].pc = "failed"
  /\ tasks[TimerSlot].arg = tasks[RouteSlot].result.nextChapterId
  /\ timers = EmptyBag

(***************************************************************************)
(* C30: the sanitized chapter body.                                        *)
(***************************************************************************)
\* The elements of a body, at both levels.
ElementsOf(nodes) ==
  {nodes[j] : j \in 1..Len(nodes)}
  \cup UNION {{nodes[j].kids[m] : m \in 1..Len(nodes[j].kids)} : j \in 1..Len(nodes)}

\* C30 as stated: the body a getChapter call returns for document c holds no
\* element bearing a class that a rule of c with `display: none` has in its
\* selector, and it holds, with its text, every element of c that neither
\* bears such a class or the class of an author note nor lies in an element
\* that does.
SanitizedAsRequired(c, body) ==
  LET hidden == UNION {{r.selector[j] : j \in 1..Len(r.selector)} :
                         r \in {q \in c.styles : q.hides}}
      gone(n) == n.classes \cap (hidden \cup {"author-note"}) # {}
      texts == {n.text : n \in ElementsOf(body)}
  IN  /\ \A n \in ElementsOf(body) : n.classes \cap hidden = {}
      /\ \A j \in 1..Len(c.nodes) :
           ~gone(c.nodes[j]) =>
              /\ c.nodes[j].text \in texts
              /\ \A m \in 1..Len(c.nodes[j].kids) :
                   ~gone(c.nodes[j].kids[m]) => c.nodes[j].kids[m].text \in texts

\* C30 as stated: the body every getChapter call returns, from the fast
\* path or from its page, is the body of the document without the elements
\* under a class of a `display: none` rule and without the author notes.
C30_DecoysRemoved ==
  [][\A i \in Slots :
       /\ \A response \in Responses(tasks[i].op, tasks[i].arg) :
            (tasks[i].op = "getChapter" /\ HttpOk(i, response)) =>
               SanitizedAsRequired(response.html, tasks'[i].result.cleanContent)
       /\ (tasks[i].op = "getChapter" /\ PageCloseSettles(i)) =>
            SanitizedAsRequired(tasks[i].content, tasks'[i].result.cleanContent)]_vars

(***************************************************************************)
(* The EPUB library (services/epub).                                       *)
(***************************************************************************)
\* Uploads a behaviour may begin.
MaxUploads == 3

EpubUsers == {"u1", "u2"}

\* The buffers a user may upload: hash is hashBuffer(fileBuffer); large says
\* fileBuffer.length > MAX_FILE_SIZE; valid that extractMetadata returns;
\* cover that the metadata holds a cover image.
EpubBuffers ==
  {[hash |-> "h1", large |-> FALSE, valid |-> TRUE, cover |-> TRUE],
   [hash |-> "h2", large |-> FALSE, valid |-> TRUE, cover |-> FALSE],
   [hash |-> "h3", large |-> FALSE, valid |-> FALSE, cover |-> FALSE],
   [hash |-> "h4", large |-> TRUE, valid |-> TRUE, cover |-> FALSE]}

\* uploadEpub from `const fileHash = hashBuffer(fileBuffer)` on, which runs
\* without an await: the epub_files row of the hash gets refCount + 1, or
\* the file is written and the row inserted with refCount 1; the cover is
\* written as <bookId>.<ext>; the epub_books row is inserted.
uploadEpub(lib, bookId, userId, buffer) ==
  LET existingFile == {f \in lib.files : f.hash = buffer.hash}
      files == IF existingFile # {}
               THEN {IF f.hash = buffer.hash THEN [f EXCEPT !.refCount = @ + 1] ELSE f :
                       f \in lib.files}
               ELSE lib.files \cup {[hash |-> buffer.hash, refCount |-> 1]}
      coverPath == IF buffer.cover THEN bookId ELSE 0
  IN  [lib EXCEPT
         !.files = files,
         !.epubs = IF existingFile # {} THEN @ ELSE @ \cup {buffer.hash},
         !.covers = IF buffer.cover THEN @ \cup {coverPath} ELSE @,
         !.books = @ \cup {[id |-> bookId, userId |-> userId, fileHash |-> buffer.hash,
                            coverPath |-> coverPath]}]

\* A faulty deleteBook: it looks the book up by its id alone.
deleteBookOfAnyone(lib, bookId, userId) ==
  LET book == {b \in lib.books : b.id = bookId}
      the == CHOOSE b \in book : TRUE
      fileInfo == {f \in lib.files : f.hash = the.fileHash}
      last == \E f \in fileInfo : f.refCount <= 1
  IN  IF book = {} THEN lib
      ELSE [lib EXCEPT
              !.books = {b \in @ : ~(b.id = bookId /\ b.userId = userId)},
              !.covers = @ \ {the.coverPath},
              !.files = IF last THEN @ \ fileInfo
                        ELSE {IF f.hash = the.fileHash
                              THEN [f EXCEPT !.refCount = @ - 1] ELSE f : f \in @},
              !.epubs = IF last THEN @ \ {the.fileHash} ELSE @]

\* deleteBook: without a row of that id and user nothing; else the row goes,
\* its cover file goes, and the epub_files row of its hash, when one
\* exists, goes with the file at refCount <= 1 and loses one otherwise.
deleteBook(lib, bookId, userId) ==
  LET book == {b \in lib.books : b.id = bookId /\ b.userId = userId}
      the == CHOOSE b \in book : TRUE
      fileInfo == {f \in lib.files : f.hash = the.fileHash}
      last == \E f \in fileInfo : f.refCount <= 1
  IN  IF book = {} THEN lib
      ELSE [lib EXCEPT
              !.books = {b \in @ : ~(b.id = bookId /\ b.userId = userId)},
              !.covers = @ \ {the.coverPath},
              !.files = IF last THEN @ \ fileInfo
                        ELSE {IF f.hash = the.fileHash
                              THEN [f EXCEPT !.refCount = @ - 1] ELSE f : f \in @},
              !.epubs = IF last THEN @ \ {the.fileHash} ELSE @]

\* A route calls uploadEpub: a buffer over MAX_FILE_SIZE is refused at once;
\* else the call awaits extractMetadata.
UploadEnter(userId, buffer) ==
  /\ epub.begun < MaxUploads
  /\ epub' = [epub EXCEPT
                !.begun = @ + 1,
                !.uploads = IF buffer.large THEN @
                            ELSE @ \cup {[n |-> epub.begun + 1, userId |-> userId,
                                          buffer |-> buffer]}]
  /\ UNCHANGED <<storeVars, ghostVars, imageCache, scraperVars, fleet, pool>>

\* extractMetadata rejects: uploadEpub returns "Invalid EPUB file".
UploadInvalid(u) ==
  /\ u \in epub.uploads
  /\ ~u.buffer.valid
  /\ epub' = [epub EXCEPT !.uploads = @ \ {u}]
  /\ UNCHANGED <<storeVars, ghostVars, imageCache, scraperVars, fleet, pool>>

\* extractMetadata returns: the rest of uploadEpub, under a fresh
\* generateId().
UploadStores(u) ==
  /\ u \in epub.uploads
  /\ u.buffer.valid
  /\ epub' = [uploadEpub(epub, u.n, u.userId, u.buffer) EXCEPT !.uploads = @ \ {u}]
  /\ UNCHANGED <<storeVars, ghostVars, imageCache, scraperVars, fleet, pool>>

\* A route calls deleteBook(bookId, userId).
DeleteBook(bookId, userId) ==
  /\ epub' = deleteBook(epub, bookId, userId)
  /\ UNCHANGED <<storeVars, ghostVars, imageCache, scraperVars, fleet, pool>>

NextEpub ==
  \/ \E userId \in EpubUsers, buffer \in EpubBuffers : UploadEnter(userId, buffer)
  \/ \E u \in epub.uploads : UploadInvalid(u)
  \/ \E u \in epub.uploads : UploadStores(u)
  \/ \E bookId \in 1..MaxUploads, userId \in EpubUsers : DeleteBook(bookId, userId)

SpecEpub == Init /\ [][NextEpub]_vars

\* A getFollows call and a live read side by side: the live read is called
\* once the getFollows call has its page of /my/follows and is resolving the
\* redirects of its rows.
NextRace ==
  \/ calls < MaxRaceCalls /\ BeginRouteCall(RouteSlot, getFollows(CACHE_TTL_FOLLOWS, "route"))
  \/ \E c \in Chapters :
       /\ calls < MaxRaceCalls
       /\ tasks[RouteSlot].pc = "resolve"
       /\ BeginRouteCall(TimerSlot, getChapterLive(c, "route"))
  \/ \E i \in Slots : FetchStep(i)
  \/ \E i \in Slots : LaunchStep(i)
  \/ \E i \in Slots : Reap(i)
  \/ \E s \in JumpSeconds : ClockJump(s)

SpecRace == Init /\ [][NextRace]_vars

\* The steps of getPage and of getChapter around it.
ChapterStep(i) ==
  \/ \E response \in Responses(tasks[i].op, tasks[i].arg) : HttpOk(i, response)
  \/ \E response \in Responses(tasks[i].op, tasks[i].arg) : Fallback(i, response)
  \/ NewPageSettles(i)
  \/ RouteOk(i)
  \/ RouteFails(i)
  \/ \E c \in PagesFor(tasks[i].op, tasks[i].arg) : NavOk(i, c)
  \/ \E c \in ChallengePages : NavChallenged(i, c)
  \/ \E err \in {"NavigationTimeout", "RetrievalFailed"} : NavThrows(i, err)
  \/ ChapterPostOk(i)
  \/ ChapterPostFails(i)
  \/ PageCloseSettles(i)

\* A reader at a chapter: the page of the chapter (a live read) and the
\* bookmark buttons on one side, the requests of the reader script on the
\* other (the pre-caching read of a chapter, the read that marks a chapter
\* as read), two of them served side by side.
ReaderCalls ==
  {getChapterLive(c, "route") : c \in Chapters}
  \cup {setBookmark(f, type, "route") : f \in Fictions, type \in {"follow", "favorite", "ril"}}

NextReader ==
  \/ calls < MaxCalls /\ \E call \in ReaderCalls : BeginRouteCall(FreeRun, call)
  \/ calls < MaxRaceCalls /\ \E call \in ApiCalls : BeginApiCall(FreeRun, call)
  \/ \E i \in Slots : ChapterStep(i)
  \/ \E i \in Slots : FormParsed(i)
  \/ \E i \in Slots, response \in BookmarkResponses : BookmarkSettles(i, response)
  \/ \E i \in Slots : Reap(i)
  \/ \E id \in BagToSet(timers) : TimerFires(FreeRun, id)

\* The reader has stored the session cookie, and index.ts has run
\* initBrowser() and startJobs().
InitReader ==
  /\ Init
  /\ hasSessionCookies
  /\ fleet = BrowserUp(cookies)

SpecReader == InitReader /\ [][NextReader]_vars

(***************************************************************************)
(* The browser under everything that uses it at once: initBrowser() at     *)
(* startup, the fallbacks of requests served side by side, the             *)
(* clear-cookies route, a browser process that dies.                       *)
(***************************************************************************)
\* The requests are for /history, and the fast path is blocked by a status
\* that is not ok; a call that has its page ends when page.route() rejects.
BlockedResponse == [rejected |-> FALSE, ok |-> FALSE, html |-> EmptyPage]

\* The first request arrives at any time from the start of the process on,
\* the second one after a browser has died; a clear-cookies request is
\* served before the first of them.  A SIGINT arrives at any time before a
\* browser has died or a clear-cookies request was served, and from then on
\* no browser dies and no such request is served; after process.exit(0)
\* nothing runs.
NextFleet ==
  \/ ~Exited /\ StartupCalls
  \/ /\ ~Exited
     /\ calls < MaxRaceCalls
     /\ calls = 0 \/ fleet.crashes > 0
     /\ BeginRouteCall(FreeRun, getHistory("route"))
  \/ \E i \in Slots : ~Exited /\ Fallback(i, BlockedResponse)
  \/ \E i \in Slots : ~Exited /\ NewPageSettles(i)
  \/ \E i \in Slots : ~Exited /\ RouteFails(i)
  \/ ~ShuttingDown /\ calls = 0 /\ ClearCookies
  \/ \E p \in Procs : ~Exited /\ BrowserStep(p)
  \/ \E b \in fleet.running : ~ShuttingDown /\ BrowserDisconnects(b)
  \/ fleet.crashes = 0 /\ fleet.cleared = 0 /\ Sigint
  \/ CloseBrowserSettles

\* The process starts with the session cookie stored.
InitFleet ==
  /\ clock = 0
  /\ cache = {}
  /\ imageCache = {}
  /\ epub = EmptyLibrary
  /\ pool = NoPool
  /\ lastCall = NoCall
  /\ lastPut = [k \in StoreKeys |-> NoPut]
  /\ InitScraper
  /\ hasSessionCookies
  /\ ~fleet.started

SpecFleet == InitFleet /\ [][NextFleet]_vars

(***************************************************************************)
(* The cache table of the settings page: the by-type list of getCacheStats *)
(* and the Clear link of each of its rows.                                 *)
(***************************************************************************)
\* Keys the Domain Service writes: a chapter, a fiction and the follows list.
SettingsKeys == {ChapterKey(1), FictionKey(1), FollowsKey}

\* GET /settings/cache/clear/<type> from the Clear link of a row of the
\* by-type table: the type is one that getCacheStats reports.
SettingsClearType ==
  \E s \in getCacheStats(cache, imageCache, clock).byType : CacheClearByType(s.type)

NextSettings ==
  \/ \E k \in SettingsKeys, t \in MaintTtls : CacheSet(k, MaintContent, t)
  \/ CacheStats
  \/ SettingsClearType
  \/ CacheClearExpired
  \/ Tick

SpecSettings == InitStore /\ [][NextSettings]_vars

(***************************************************************************)
(* parallelLimit(items, limit, fn) as getFollows calls it, at the grain of *)
(* its awaits.  fn never rejects: it catches what resolveRedirectUrl       *)
(* throws.                                                                 *)
(***************************************************************************)
\* The limit getFollows passes.
ResolutionLimit == 10

\* A faulty loop: it never waits for a resolution to finish.
afterPushNoWait(executing, limit) == "loop"

\* After executing.push(p): `await Promise.race(executing)` when the array
\* has reached the limit, else the next iteration.
afterPush(executing, limit) ==
  IF Cardinality(executing) >= limit THEN "race" ELSE "loop"

\* getFollows has parsed `direct` rows with a direct chapter link and n rows
\* with a /chapter/next/ redirect, of which those in `unresolved` will get
\* no chapter id (resolveRedirectUrl gives null or throws): it calls
\* parallelLimit(fictionsNeedingResolution, 10, fn) when n > 0; with none
\* it goes on to setCache.
ResolutionBegins(n, direct, unresolved) ==
  /\ pool.pc = "idle"
  /\ unresolved \subseteq 1..n
  /\ pool' = [NoPool EXCEPT !.n = n, !.direct = direct, !.unresolved = unresolved,
                            !.pc = IF n > 0 THEN "loop" ELSE "cache"]
  /\ UNCHANGED <<storeVars, ghostVars, imageCache, scraperVars, epub, fleet>>

\* One iteration of the for loop: fn(item) is called, which issues the HEAD
\* request, and p is pushed; after the last item, Promise.all(executing).
PoolStarts ==
  /\ pool.pc = "loop"
  /\ IF pool.next > pool.n
     THEN pool' = [pool EXCEPT !.pc = "all", !.pending = pool.executing]
     ELSE LET k == pool.next
              ex == pool.executing \cup {k}
              fl == pool.inflight \cup {k}
          IN  pool' = [pool EXCEPT !.next = k + 1, !.executing = ex, !.inflight = fl,
                                   !.started[k] = @ + 1,
                                   !.peak = IF Cardinality(fl) > @ THEN Cardinality(fl) ELSE @,
                                   !.raced = FALSE,
                                   !.pc = afterPush(ex, ResolutionLimit)]
  /\ UNCHANGED <<storeVars, ghostVars, imageCache, scraperVars, epub, fleet>>

\* The resolution of item k finishes: fn(k) resolves and the then-callback
\* takes p out of `executing`.
ResolutionSettles(k) ==
  /\ k \in pool.inflight
  /\ pool' = [pool EXCEPT !.inflight = @ \ {k}, !.executing = @ \ {k},
                          !.pending = @ \ {k},
                          !.raced = (pool.pc = "race")]
  /\ UNCHANGED <<storeVars, ghostVars, imageCache, scraperVars, epub, fleet>>

\* Promise.race(executing) has settled: one of the promises handed to it
\* has; the loop goes on.
RaceResumes ==
  /\ pool.pc = "race"
  /\ pool.raced
  /\ pool' = [pool EXCEPT !.pc = "loop", !.raced = FALSE]
  /\ UNCHANGED <<storeVars, ghostVars, imageCache, scraperVars, epub, fleet>>

\* Promise.all(executing) has settled: every promise handed to it has;
\* parallelLimit resolves.
AllResumes ==
  /\ pool.pc = "all"
  /\ pool.pending = {}
  /\ pool' = [pool EXCEPT !.pc = "cache"]
  /\ UNCHANGED <<storeVars, ghostVars, imageCache, scraperVars, epub, fleet>>

\* The list getFollows has once parallelLimit has resolved: the rows with a
\* direct link, then the rows resolved.
poolFictions(q) ==
  [j \in 1..(q.direct + q.n) |->
     IF j <= q.direct
     THEN [id |-> 1, lastReadChapterId |-> 0, nextChapterId |-> 1, nextChapterUrl |-> FALSE]
     ELSE [id |-> 1, lastReadChapterId |-> 1,
           nextChapterId |-> IF (j - q.direct) \in q.unresolved THEN 0 ELSE NumChapters,
           nextChapterUrl |-> FALSE]]

\* if (fictions.length > 0) setCache("follows", JSON.stringify(fictions), ttl)
followsCached(q, rows, now) ==
  IF Len(poolFictions(q)) > 0
  THEN setCacheRows(rows, now, FollowsKey, JSONstringify(poolFictions(q)), CACHE_TTL_FOLLOWS)
  ELSE rows

\* setCache("follows", ...) of getFollows, and the call returns.
FollowsCached ==
  /\ pool.pc = "cache"
  /\ pool' = [pool EXCEPT !.pc = "done"]
  /\ cache' = followsCached(pool, cache, clock)
  /\ UNCHANGED <<clock, ghostVars, imageCache, scraperVars, epub, fleet>>

\* The numbers of follows needing resolution: none, one, and lists about as
\* long as the limit and longer.
PoolSizes == {0, 1, MaxFollows - 1, MaxFollows}

NextPool ==
  \/ \E n \in PoolSizes, direct \in {0, 1}, unresolved \in {{}, {1}} :
       ResolutionBegins(n, direct, unresolved)
  \/ PoolStarts
  \/ \E k \in 1..MaxFollows : ResolutionSettles(k)
  \/ RaceResumes
  \/ AllResumes
  \/ FollowsCached

SpecPool == InitCache /\ [][NextPool]_vars

(***************************************************************************)
(* C31: the numbers of a stat text.                                        *)
(***************************************************************************)
\* The values of the longest runs of digits of a text, once its commas are
\* removed.
LongestDigitRuns(text) ==
  LET notComma(ch) == ch # ","
      s == SelectSeq(text, notComma)
      runs == {r \in (1..Len(s)) \X (1..Len(s)) :
                 /\ r[1] <= r[2] /\ \A m \in r[1]..r[2] : s[m] # "x"
                 /\ (r[1] = 1 \/ s[r[1] - 1] = "x") /\ (r[2] = Len(s) \/ s[r[2] + 1] = "x")}
  IN  {parseInt(SubSeq(s, r[1], r[2])) :
         r \in {q \in runs : \A o \in runs : q[2] - q[1] >= o[2] - o[1]}}

\* C31 as stated: for the item of a fetched list whose stat text holds a
\* digit, the follower count (fa-users icon) or the page count (fa-book
\* icon) returned is the value of the longest run of digits of the text with
\* its commas removed.
C31_LongestDigitRun ==
  [][\A i \in Slots : \A c \in StatPages :
       (tasks[i].op = "getToplist" /\ (HttpOk(i, [rejected |-> FALSE, ok |-> TRUE, html |-> c])
                                       \/ (PageCloseSettles(i) /\ tasks[i].content = c))
        /\ LongestDigitRuns(c.list[1].text) # {}) =>
          LET item == tasks'[i].result[1]
          IN  IF c.list[1].icon = "fa-users"
              THEN item.followers \in LongestDigitRuns(c.list[1].text)
              ELSE item.pages \in LongestDigitRuns(c.list[1].text)]_vars

(***************************************************************************)
(* C32: the reference counts of the EPUB files.                            *)
(***************************************************************************)
\* The epub_books rows that reference the file of hash h.
BooksOf(h) == {b \in epub.books : b.fileHash = h}

\* C32: whatever uploadEpub and deleteBook calls the users have made, for
\* every hash there is an epub_files row exactly when an epub_books row
\* references it, at most one, with refCount the number of those rows, and
\* the file of the hash is stored exactly when the row exists; and a
\* deleteBook for a book the user does not own changes nothing.
C32_RefCounts ==
  /\ [](\A h \in {b.hash : b \in EpubBuffers} :
          LET rows == {f \in epub.files : f.hash = h}
          IN  /\ rows # {} <=> BooksOf(h) # {}
              /\ Cardinality(rows) <= 1
              /\ \A f \in rows : f.refCount = Cardinality(BooksOf(h))
              /\ h \in epub.epubs <=> rows # {})
  /\ [][\A bookId \in 1..MaxUploads, userId \in EpubUsers :
          (DeleteBook(bookId, userId)
           /\ ~\E b \in epub.books : b.id = bookId /\ b.userId = userId) =>
             epub' = epub]_vars

\* C32 witness: two users uploaded the same file and the first deleted their
\* book: the file is kept with refCount 1 for the book of the second.
C32_Witness ==
  /\ epub.uploads = {}
  /\ epub.files = {[hash |-> "h1", refCount |-> 1]}
  /\ epub.epubs = {"h1"}
  /\ \E b \in epub.books : epub.books = {b} /\ b.userId = "u2" /\ b.id = 2

(***************************************************************************)
(* C33: a live read and a list fetch in flight.                            *)
(***************************************************************************)
\* C33 as stated, for a getFollows call that had its page before the live
\* read was called: once the live read has returned, getCache("follows")
\* returns nothing, as long as no call fetches the list anew.
C33_NoStaleFollows ==
  (LiveChapter(tasks[TimerSlot]) /\ tasks[TimerSlot].pc = "done") =>
     getCache(FollowsKey) = Null

(***************************************************************************)
(* C34: one browser, one context of each kind.                             *)
(***************************************************************************)
\* The contexts a call is closing (`await context.close()` pending).
ClosingContexts ==
  {fleet.procs[p].cx :
     p \in {q \in Procs : fleet.procs[q].pc \in {"contextClose", "anonClose", "closingAnon",
                                                "closingContext"}}}

\* C34 as stated: at most one browser process is running; at most two
\* contexts are open, the one `context` refers to and the one `anonContext`
\* refers to; every running browser is the one `browser` refers to, and
\* every open context is referred to by `context` or `anonContext` or is
\* being closed by a call.
C34_SingleBrowser ==
  /\ Cardinality(fleet.running) <= 1
  /\ \A b \in fleet.running : b = fleet.browser
  /\ \A c \in fleet.open :
       c.id \in {fleet.context, fleet.anonContext} \cup ClosingContexts

(***************************************************************************)
(* C36: a retrieval that finds the browser disconnected.                   *)
(***************************************************************************)
\* C36: a fallback retrieval that finds the browser disconnected while a
\* session cookie is stored sets browser, context and anonContext to null
\* and awaits the launch of a new browser; when its launch settles the new
\* browser is assigned and the authenticated context is being created on
\* it; and the page it opens, if it opens one, is in a context of a browser
\* launched after the disconnected one, never in a context of the
\* disconnected browser or of an older one.
C36_FreshAfterDisconnect ==
  [][\A i \in Slots :
       /\ (Fallback(i, BlockedResponse)
           /\ fleet.browser # 0 /\ fleet.browser \notin fleet.running
           /\ hasSessionCookies) =>
             /\ fleet'.browser = 0 /\ fleet'.context = 0 /\ fleet'.anonContext = 0
             /\ fleet'.procs[i].pc = "launch"
             /\ fleet'.procs[i].found = fleet.browser
       /\ (LaunchSettles(i) /\ fleet.procs[i].found # 0) =>
             /\ fleet'.browser = fleet.launches + 1
             /\ fleet'.browser \in fleet'.running
             /\ fleet'.procs[i].pc \in {"contextNew", "contextClose"}
             /\ fleet'.procs[i].pc = "contextNew" =>
                   fleet'.procs[i].br = fleet'.browser
       /\ tasks'[i].found # 0 =>
             \A p \in OwnPages(i)' : \A x \in ContextsAt(fleet', p.cx) :
               x.of > tasks'[i].found]_vars

(***************************************************************************)
(* C35: retrievals in flight while the authenticated context is rebuilt.   *)
(***************************************************************************)
\* C35: no retrieval in flight navigates or reads a page of an authenticated
\* context that has been closed: a call that holds a page it opened in the
\* authenticated context (navigating, or getChapter reading the loaded
\* page) still has that page open.
C35_NoPageOfClosedContext ==
  \A i \in Slots :
    (tasks[i].pc \in {"route", "nav", "wait", "navInfo", "fictionInfo", "evaluate"}
     /\ tasks[i].page /\ tasks[i].ctxUsed = "auth") =>
      PageAlive(i)

(***************************************************************************)
(* C37: the Clear link of a row of the by-type table.                      *)
(***************************************************************************)
\* C37: for every type that getCacheStats reports with count n,
\* clearCacheByType of that type deletes exactly the n rows counted under
\* it and returns n.
C37_ClearEmptiesItsGroup ==
  [][lastCall'.op = "clearCacheByType" =>
       \A s \in getCacheStats(cache, imageCache, clock).byType :
          s.type = lastCall'.url =>
            /\ cache \ cache' = {r \in cache : typeOf(r.url) = s.type}
            /\ cache' \subseteq cache
            /\ lastCall'.result = <<s.count>>]_vars

(***************************************************************************)
(* C38: the timers of the scheduler.                                       *)
(***************************************************************************)
\* C38: after any sequence of startJobs and stopJobs calls at most one
\* follows interval timer and at most one toplist interval timer are armed,
\* both are armed exactly when jobsRunning is true, and a startJobs call
\* made while jobs are running arms no timer and schedules no initial run.
C38_OneTimerOfEachKind ==
  /\ [](/\ jobs.followsArmed <= 1 /\ jobs.toplistsArmed <= 1
        /\ jobs.jobsRunning <=> jobs.followsArmed = 1
        /\ jobs.jobsRunning <=> jobs.toplistsArmed = 1
        /\ jobs.followsJobInterval <=> jobs.followsArmed = 1
        /\ jobs.toplistsJobInterval <=> jobs.toplistsArmed = 1)
  /\ [][(StartJobs /\ jobs.jobsRunning) =>
          /\ jobs'.followsArmed = jobs.followsArmed
          /\ jobs'.toplistsArmed = jobs.toplistsArmed
          /\ jobs'.initialRuns = jobs.initialRuns
          /\ jobs' = jobs]_vars

\* C38 witness: jobs were started, the initial run has fired, jobs were
\* stopped and started again: one timer of each kind is armed and the
\* initial run of the second start is pending.
C38_Witness ==
  /\ jobs.jobsRunning /\ jobs.runs = 1 /\ jobs.initialRuns = 1
  /\ jobs.followsArmed = 1 /\ jobs.toplistsArmed = 1

(***************************************************************************)
(* C40: the redirect resolutions of getFollows.                            *)
(***************************************************************************)
\* C40: while getFollows resolves the next-chapter redirects through
\* parallelLimit with limit 10, never more than 10 resolutions are in
\* flight and no follow is started twice; once parallelLimit has resolved
\* every follow needing resolution was started exactly once and none is in
\* flight; and the step that caches `follows` is taken with no resolution
\* in flight, is the only step that changes the cache, and writes the whole
\* list (when it is not empty) under `follows`, to expire 1200 s later.
C40_AtMostTenInFlight ==
  /\ [](/\ Cardinality(pool.inflight) <= 10
        /\ \A k \in 1..MaxFollows : pool.started[k] <= 1
        /\ pool.pc \in {"cache", "done"} =>
              /\ pool.inflight = {}
              /\ \A k \in 1..MaxFollows :
                    pool.started[k] = IF k <= pool.n THEN 1 ELSE 0)
  /\ [][/\ FollowsCached =>
             /\ pool.inflight = {}
             /\ \A k \in 1..pool.n : pool.started[k] = 1
             /\ pool.n + pool.direct > 0 =>
                   \E r \in cache' :
                     /\ r.url = FollowsKey
                     /\ Len(JSONparse(r.content)) = pool.n + pool.direct
                     /\ r.expires_at = NowSeconds(clock) + 1200
        /\ cache' # cache => (pool.pc = "cache" /\ pool'.pc = "done")]_vars

\* C40 witness: a list with more than 10 follows to resolve has been cached
\* after 10 resolutions were in flight at once.
C40_Witness ==
  /\ pool.pc = "done" /\ pool.n > 10 /\ pool.peak = 10
  /\ RowsOf(cache, FollowsKey) # {}

(***************************************************************************)
(* C39: what a pre-caching read leaves alone.                              *)
(***************************************************************************)
\* C39: every step of a getChapter call made with a TTL, whether it returns
\* the cached chapter or retrieves it, changes no row of the cache other
\* than that of `chapter:<id>`, deletes nothing (so neither `follows` nor a
\* `fiction:*` entry) and arms no timer of another chapter fetch.
C39_PreCacheTouchesItsKeyOnly ==
  [][\A i \in Slots :
       (tasks'[i] # tasks[i] /\ (PreChapter(tasks[i]) \/ PreChapter(tasks'[i]))) =>
          LET t == IF PreChapter(tasks'[i]) THEN tasks'[i] ELSE tasks[i]
          IN  /\ \A r \in (cache \ cache') \cup (cache' \ cache) :
                    r.url = ChapterKey(t.arg)
              /\ \A k \in {FollowsKey} \cup {FictionKey(f) : f \in Fictions} :
                    RowsOf(cache', k) = RowsOf(cache, k)
              /\ t.deleted = {}
              /\ timers' \sqsubseteq timers]_vars

\* C39 witness: the pre-caching read that a GET /api/chapter/<id> request
\* started has retrieved and stored a chapter that has a next chapter, while
\* the fiction of the chapter is cached; the entry is still there and no
\* timer is armed.
C39_Witness ==
  \E i \in Slots :
    /\ PreChapter(tasks[i]) /\ tasks[i].pc = "done" /\ ~tasks[i].hit
    /\ tasks[i].caller = "api"
    /\ tasks[i].wrote = {ChapterKey(tasks[i].arg)}
    /\ tasks[i].result.nextChapterId # 0
    /\ getCache(FictionKey(OwnerOf(tasks[i].arg))) # Null
    /\ timers = EmptyBag

====
